---- MODULE Spec2Model ----
(***************************************************************************)
(* Realtime channel of the Garmin Hermes client (HermesSignalR):           *)
(* start/stop, the hub close callback, _schedule_full_reconnect and the    *)
(* _full_reconnect_loop thread with its exponential backoff.               *)
(*                                                                         *)
(* Threads of the model:                                                   *)
(*   - the caller's thread, which runs start() and stop() one at a time;   *)
(*   - one transport thread per hub object, which delivers that hub's      *)
(*     close callback (_on_hub_close);                                     *)
(*   - the daemon threads created by _schedule_full_reconnect, each        *)
(*     running _full_reconnect_loop.                                       *)
(*                                                                         *)
(* Token lifecycle of the client (HermesAuth): token_expired, headers(),   *)
(* resume(), refresh_hermes_token(), confirm_otp() and the credential file *)
(* of a session directory, called from several threads (a REST call, the   *)
(* hub's token factory, the reconnect loop).                               *)
(***************************************************************************)
EXTENDS Integers, Sequences, FiniteSets, TLC

\* ----- program constants (signalr.py:34-36) ------------------------------
RECONNECT_BASE_DELAY == 5
RECONNECT_MAX_DELAY == 120
RECONNECT_BACKOFF == 2

\* ----- bounds of the model ------------------------------------------------
MaxHubs == 2        \* hub objects that exist at the same time
MaxThreads == 2     \* reconnect Thread objects that exist at the same time
MaxFails == 6       \* failed loop iterations explored by SpecBackoff
MaxRaceFails == 1   \* failed loop iterations explored by Spec
MaxCalls == 3       \* start() and stop() calls made by the caller

Hubs == 1..MaxHubs
Threads == 1..MaxThreads
NoHub == 0
NoThread == 0

Handlers == {"none", "handler"}
HandlerOutcomes == {"returns", "raises"}
RefreshFailures == {"RuntimeError", "HTTPStatusError", "TransportError", "ValidationError"}

VARIABLES
    stopped,            \* self._stopped
    hub,                \* self._hub (NoHub = None)
    on_close,           \* self._on_close: none or a handler of the caller
    reconnect_thread,   \* self._reconnect_thread (NoThread = None)
    hubState,           \* per hub object: unbuilt, down (built or closed, not open), live
    closePending,       \* per hub: the close its transport still has to report
                        \* (none, drop, stop = closed by stop(), teardown = by the loop)
    cbpc,               \* per hub transport thread: position inside _on_hub_close
    thr,                \* per Thread object: position in _full_reconnect_loop, delay, history
    callerpc,           \* caller thread: idle, or inside start()/stop()
    callerResult,       \* how the caller's last call ended: none, returned, raised
    lastOp,             \* the last call the caller made: none, start, stop
    calls,              \* start() and stop() calls made so far (bound)
    fails               \* failed loop iterations so far (bound)

chanVars == <<stopped, hub, on_close, reconnect_thread, hubState, closePending, cbpc,
              thr, callerpc, callerResult, lastOp, calls, fails>>

\* ----- event dispatch: constants, values and state (signalr.py) ------------

MaxEvents == 2      \* events and results the transport delivers
MaxRegs == 1        \* on_* registrations made by the caller

NoHandler == "none"             \* a slot holding None
HandlerIds == {"h1", "h2"}      \* callables of the application

\* The handler slots of __init__ other than _on_close        (signalr.py:59-67)
Slots == {"_on_message", "_on_status_update", "_on_mute_update", "_on_block_update",
          "_on_notification", "_on_nonconversational_message", "_on_open", "_on_error"}

\* Server -> client method names wired by _build_hub        (signalr.py:145-154)
ServerMethods == {"ReceiveMessage", "ReceiveMessageUpdate",
                  "ReceiveConversationMuteStatusUpdate", "ReceiveUserBlockStatusUpdate",
                  "ReceiveServerNotification", "ReceiveNonconversationalMessage"}

\* What a hub object can call back: the six server methods and its
\* open, close and error callbacks.
HubEvents == ServerMethods \cup {"open", "close", "error"}

\* The callbacks _build_hub gives to a hub                  (signalr.py:145-158)
Wiring == [m \in HubEvents |->
             CASE m = "ReceiveMessage" -> "_handle_message"
               [] m = "ReceiveMessageUpdate" -> "_handle_status_update"
               [] m = "ReceiveConversationMuteStatusUpdate" -> "_handle_mute_update"
               [] m = "ReceiveUserBlockStatusUpdate" -> "_handle_block_update"
               [] m = "ReceiveServerNotification" -> "_handle_notification"
               [] m = "ReceiveNonconversationalMessage" -> "_handle_nonconversational_message"
               [] m = "open" -> "_on_hub_open"
               [] m = "close" -> "_on_hub_close"
               [] m = "error" -> "_handle_error"]

\* A hub object nothing was registered on.
NoWiring == [m \in HubEvents |-> "none"]

\* The slot each callback reads                     (signalr.py:177-180, 295-355)
SlotOf(meth) ==
    CASE meth = "_handle_message" -> "_on_message"
      [] meth = "_handle_status_update" -> "_on_status_update"
      [] meth = "_handle_mute_update" -> "_on_mute_update"
      [] meth = "_handle_block_update" -> "_on_block_update"
      [] meth = "_handle_notification" -> "_on_notification"
      [] meth = "_handle_nonconversational_message" -> "_on_nonconversational_message"
      [] meth = "_on_hub_open" -> "_on_open"
      [] meth = "_handle_error" -> "_on_error"

VARIABLES
    slots,              \* self._on_message .. self._on_error (self._on_close is on_close)
    registered,         \* per slot: the handler its on_* method was last called with (history)
    regLive,            \* the last on_* call was made on an open connection (history)
    wiring,             \* per hub object: the callbacks registered on it
    regs,               \* registrations made so far (bound)
    events,             \* deliveries of the transport so far (bound)
    dropped,            \* deliveries whose payload did not decode (history)
    invocation,         \* the last hub.send() that awaits a result: method,
                        \* arguments, result callback
    acks,               \* history: the MarkAsDelivered invocations made, in order
    last                \* what the last delivery did (history)

evVars == <<slots, registered, regLive, wiring, regs, events, dropped, invocation, acks,
           last>>

\* ----- wire values and their decoding --------------------------------------

\* A str, as its characters.
EmptyText == <<>>
NoneText == <<"N", "o", "n", "e">>      \* str(None)

\* The argument list the transport hands to a callback: len is its length;
\* its first element is a JSON object (has: the keys present, true: the
\* keys whose value is true, status and messageStatus: the values of those
\* two keys, ids: the texts of its messageId and conversationId), a string
\* (s), a number (n) or null.
NoIds == [messageId |-> EmptyText, conversationId |-> EmptyText]
Args(len, t, has, tr, st, ms, s, n) ==
    [len |-> len, t |-> t, has |-> has, true |-> tr, status |-> st,
     messageStatus |-> ms, s |-> s, n |-> n, ids |-> NoIds]
NoArgs == Args(0, "none", {}, {}, "", "", EmptyText, 0)
Obj(has) == Args(1, "obj", has, {}, "", "", EmptyText, 0)
ObjTrue(has, tr) == Args(1, "obj", has, tr, "", "", EmptyText, 0)
StatusObj(has, st, ms) == Args(1, "obj", has, {}, st, ms, EmptyText, 0)
MsgObj(has, mid, cid) ==
    [Obj(has) EXCEPT !.ids = [messageId |-> mid, conversationId |-> cid]]
StrArg(s) == Args(1, "str", {}, {}, "", "", s, 0)
NumArg(n) == Args(1, "num", {}, {}, "", "", EmptyText, n)
NullArg == Args(1, "null", {}, {}, "", "", EmptyText, 0)

\* data = args[0] if args else args: the empty list stays the empty list
\*                                                           (signalr.py:297)
FirstOrSelf(args) == IF args.len > 0 THEN args ELSE [args EXCEPT !.t = "list"]

\* What a handler is called with: a typed model (flags: its fields that
\* are True or set, ids: its messageId and conversationId as UUIDs), a str
\* (text), or nothing.
Typed(type, flags, ms, text) ==
    [type |-> type, flags |-> flags, messageStatus |-> ms, text |-> text,
     ids |-> NoIds]

\* uuid.UUID(text) and str(UUID): a UUID is kept as its canonical text, the
\* lower-case form of the hexadecimal digits it was parsed from.
LowerOf(ch) ==
    CASE ch = "A" -> "a" [] ch = "B" -> "b" [] ch = "C" -> "c"
      [] ch = "D" -> "d" [] ch = "E" -> "e" [] ch = "F" -> "f"
      [] OTHER -> ch
UuidOf(text) == [i \in 1..Len(text) |-> LowerOf(text[i])]
StrOfUuid(u) == u
NoValue == Typed("none", {}, "None", EmptyText)
Failed == [ok |-> FALSE, value |-> NoValue]
Decoded(v) == [ok |-> TRUE, value |-> v]

\* class MessageStatus(str, Enum): the member of a wire value (models.py:39-49)
WireStatuses == {"Initialized", "Processing", "Sent", "Delivered", "Read",
                 "Undeliverable", "RetryableError", "Deleted", "Expired", "Uninitialized"}
MessageStatusOf(w) ==
    CASE w = "Initialized" -> "INITIALIZED"
      [] w = "Processing" -> "PROCESSING"
      [] w = "Sent" -> "SENT"
      [] w = "Delivered" -> "DELIVERED"
      [] w = "Read" -> "READ"
      [] w = "Undeliverable" -> "UNDELIVERABLE"
      [] w = "RetryableError" -> "RETRYABLE_ERROR"
      [] w = "Deleted" -> "DELETED"
      [] w = "Expired" -> "EXPIRED"
      [] w = "Uninitialized" -> "UNINITIALIZED"

\* MessageModel.model_validate: messageId and conversationId are required
\*                                                       (models.py:128-157)
ValidateMessage(data) ==
    IF data.t = "obj" /\ {"messageId", "conversationId"} \subseteq data.has
    THEN Decoded([Typed("MessageModel", data.has, "None", EmptyText) EXCEPT
                     !.ids = [messageId |-> UuidOf(data.ids.messageId),
                              conversationId |-> UuidOf(data.ids.conversationId)]])
    ELSE Failed

\* A MessageStatusUpdate whose alias order is status, messageStatus.
ValidateStatusUpdateStatusFirst(data) ==
    IF data.t # "obj" \/ "messageId" \notin data.has THEN Failed
    ELSE IF "status" \in data.has
         THEN IF data.status \in WireStatuses
              THEN Decoded(Typed("MessageStatusUpdate", {"messageId"},
                                 MessageStatusOf(data.status), EmptyText))
              ELSE Failed
    ELSE IF "messageStatus" \in data.has
         THEN IF data.messageStatus \in WireStatuses
              THEN Decoded(Typed("MessageStatusUpdate", {"messageId"},
                                 MessageStatusOf(data.messageStatus), EmptyText))
              ELSE Failed
    ELSE Decoded(Typed("MessageStatusUpdate", {"messageId"}, "None", EmptyText))

\* MessageStatusUpdate.model_validate: messageId is required; messageStatus
\* is read from the first key present of AliasChoices("messageStatus",
\* "status") and must be a MessageStatus value; it defaults to None
\*                                                       (models.py:411-420)
ValidateStatusUpdate(data) ==
    IF data.t # "obj" \/ "messageId" \notin data.has THEN Failed
    ELSE IF "messageStatus" \in data.has
         THEN IF data.messageStatus \in WireStatuses
              THEN Decoded(Typed("MessageStatusUpdate", {"messageId"},
                                 MessageStatusOf(data.messageStatus), EmptyText))
              ELSE Failed
    ELSE IF "status" \in data.has
         THEN IF data.status \in WireStatuses
              THEN Decoded(Typed("MessageStatusUpdate", {"messageId"},
                                 MessageStatusOf(data.status), EmptyText))
              ELSE Failed
    ELSE Decoded(Typed("MessageStatusUpdate", {"messageId"}, "None", EmptyText))

\* model_validate of a model all of whose fields are optional: any JSON
\* object is accepted; flags: the bool fields that are True
\*                                           (models.py:330-333 and 423-435)
ValidateOptional(type, data) ==
    IF data.t = "obj" THEN Decoded(Typed(type, data.true, "None", EmptyText))
    ELSE Failed

\* str(n) of a non-negative int: its decimal digits.
Digit(d) == <<"0", "1", "2", "3", "4", "5", "6", "7", "8", "9">>[d + 1]
RECURSIVE DecimalStr(_)
DecimalStr(n) == IF n < 10 THEN <<Digit(n)>>
                 ELSE Append(DecimalStr(n \div 10), Digit(n % 10))

\* An imei passed on as it arrived.
ImeiOfRaw(args) ==
    IF args.len = 0 THEN Decoded(Typed("str", {}, "None", EmptyText))
    ELSE CASE args.t = "str" -> Decoded(Typed("str", {}, "None", args.s))
           [] args.t = "num" -> Decoded(Typed("int", {}, "None", DecimalStr(args.n)))
           [] OTHER -> Decoded(Typed("NoneType", {}, "None", NoneText))

\* imei = str(args[0]) if args else ""                      (signalr.py:345)
ImeiOf(args) ==
    IF args.len = 0 THEN Decoded(Typed("str", {}, "None", EmptyText))
    ELSE CASE args.t = "str" -> Decoded(Typed("str", {}, "None", args.s))
           [] args.t = "num" -> Decoded(Typed("str", {}, "None", DecimalStr(args.n)))
           [] OTHER -> Decoded(Typed("str", {}, "None", NoneText))

\* What each _handle_* method makes of its argument list before it looks at
\* its slot                                              (signalr.py:295-355)
Decode(meth, args) ==
    CASE meth = "_handle_message" -> ValidateMessage(FirstOrSelf(args))
      [] meth = "_handle_status_update" -> ValidateStatusUpdate(FirstOrSelf(args))
      [] meth = "_handle_mute_update" ->
            ValidateOptional("ConversationMuteStatusUpdate", FirstOrSelf(args))
      [] meth = "_handle_block_update" ->
            ValidateOptional("UserBlockStatusUpdate", FirstOrSelf(args))
      [] meth = "_handle_notification" ->
            ValidateOptional("ServerNotification", FirstOrSelf(args))
      [] meth = "_handle_nonconversational_message" -> ImeiOf(args)
      [] meth = "_on_hub_open" -> Decoded(NoValue)
      [] meth = "_handle_error" -> Decoded(Typed("error", {}, "None", EmptyText))

\* The argument lists the server sends with each event: well-formed ones,
\* ones lacking required keys, a string in place of the object, null, and
\* the empty list.
ImeiNumbers == {0, 7, 300234}
MessageIdTexts == {<<"A", "1">>, <<"b", "2">>}
ConversationIdTexts == {<<"C", "3">>, <<"d", "4">>}
ImeiTexts == {<<"3", "0", "0", "2", "3", "4">>, <<"A", "7">>}
Payloads(m) ==
    CASE m = "ReceiveMessage" ->
            {MsgObj({"messageId", "conversationId", "messageBody"}, mid, cid) :
                mid \in MessageIdTexts, cid \in ConversationIdTexts}
            \cup {Obj({"conversationId", "messageBody"}), Obj({"invalid"}),
             StrArg(<<"A", "7">>), NoArgs}
      [] m = "ReceiveMessageUpdate" ->
            {StatusObj(has, st, ms) :
                has \in {{"messageId"}, {"messageId", "status"},
                         {"messageId", "messageStatus"},
                         {"messageId", "status", "messageStatus"},
                         {"status", "messageStatus"}},
                st \in {"Delivered"}, ms \in {"Read", "Bogus"}}
            \cup {StatusObj({"messageId", "status"}, "Bogus", ""), NoArgs}
      [] m = "ReceiveConversationMuteStatusUpdate" ->
            {ObjTrue({"conversationId", "isMuted"}, {"isMuted"}), Obj({}),
             StrArg(<<"A", "7">>), NoArgs}
      [] m = "ReceiveUserBlockStatusUpdate" ->
            {ObjTrue({"userId", "isBlocked"}, {"isBlocked"}), Obj({}),
             StrArg(<<"A", "7">>), NoArgs}
      [] m = "ReceiveServerNotification" ->
            {Obj({"notificationType", "message"}), Obj({}), StrArg(<<"A", "7">>), NoArgs}
      [] m = "ReceiveNonconversationalMessage" ->
            {NumArg(n) : n \in ImeiNumbers} \cup {StrArg(s) : s \in ImeiTexts}
            \cup {NullArg, NoArgs}
      [] m = "open" -> {NoArgs}
      [] m = "error" -> {StrArg(<<"A", "7">>)}

\* The results the server answers to NetworkProperties.
Results == {ObjTrue({"dataConstrained", "enablesPremiumMessaging"}, {"dataConstrained"}),
            ObjTrue({"dataConstrained", "enablesPremiumMessaging"}, {}),
            Obj({}), StrArg(<<"A", "7">>), NullArg}

\* No hub.send() was made; no delivery was made.
NoInvocation == [method |-> "none", args |-> <<>>, on_result |-> "none",
                 callback |-> NoHandler]
NoDelivery == [hub |-> NoHub, event |-> "none", args |-> NoArgs, ran |-> "none",
               ok |-> FALSE, invoked |-> NoHandler, times |-> 0, arg |-> NoValue,
               raised |-> FALSE, escaped |-> FALSE, afterRaise |-> "none"]

\* __init__: every slot is None, there is no hub              (signalr.py:56-69)
DispatchConstructed ==
    /\ slots = [k \in Slots |-> NoHandler]
    /\ registered = slots
    /\ regLive = FALSE
    /\ wiring = [h \in Hubs |-> NoWiring]
    /\ regs = 0
    /\ events = 0
    /\ dropped = 0
    /\ invocation = NoInvocation
    /\ acks = <<>>
    /\ last = NoDelivery

\* ----- HermesAuth: constants, values and state (auth.py) -------------------

TOKEN_EXPIRY_BUFFER == 60   \* seconds, token_expired (auth.py:248)

MaxAuthCalls == 3   \* calls made on the HermesAuth
MaxIssued == 2      \* successful answers of the registration server
MaxTicks == 1       \* advances of the clock

\* The threads that call into the one HermesAuth of a process: the
\* application's thread (REST calls through HermesAPI, resume, confirm_otp)
\* and a thread of the realtime channel (the transport calling
\* token_factory, or _full_reconnect_loop).
Callers == {"app", "channel"}

None == 0           \* Python None (an absent token, instance id or directory)
EmptyStr == -1      \* the empty string, a valid accessToken: str
StartNow == 1000    \* time.time() when the HermesAuth is constructed
OldToken == 100     \* the tokens and instance id in a file of an earlier run
Missing == -2       \* a key the JSON object in a credentials file does not have
TickSteps == {1}               \* seconds the clock advances in one step
ExpiresIns == {30, 61}         \* expiresIn values the server answers
SavedExpiries == {StartNow - 100, StartNow + 3600}  \* expires_at of files of earlier runs

Dirs == {"A", "B"}  \* session directories
NoDir == "None"     \* session_dir = None

\* The operations called on a HermesAuth, by the name of the calling code:
\* the token_expired property, headers() (HermesAPI._headers), the hub's
\* token_factory, the token check of _full_reconnect_loop, resume(),
\* refresh_hermes_token(), confirm_otp() and request_otp().
Ops == {"token_expired", "headers", "token_factory", "loop", "resume",
        "refresh_hermes_token", "confirm_otp", "request_otp"}

\* The operations each thread calls.
OpsOf(c) == IF c = "channel" THEN {"token_factory", "loop"}
            ELSE Ops \ {"token_factory", "loop"}

\* What a failed request raises: httpx.TransportError (network),
\* httpx.HTTPStatusError (raise_for_status on a non-2xx answer),
\* pydantic.ValidationError (model_validate of the body).
RequestFailures == {"TransportError", "HTTPStatusError", "ValidationError"}

OTP_COOLDOWN == 30  \* seconds, time.sleep(30) of request_otp (auth.py:140)

\* Status codes the server answers to Registration/App: success, "previous
\* OTP request still active", and another non-2xx code.
OtpStatuses == {200, 409, 500}

VARIABLES
    now,                \* time.time()
    ticks,              \* advances of the clock so far (bound)
    session_dir,        \* self.session_dir
    access_token,       \* self.access_token
    refresh_token,      \* self.refresh_token
    instance_id,        \* self.instance_id
    expires_at,         \* self.expires_at
    disk,               \* per directory: its hermes_credentials.json
    stored,             \* per directory: the credential _store_credentials
                        \* was last given for it (history)
    issued,             \* successful server answers so far (they number the tokens)
    authCalls,          \* calls made on the HermesAuth so far (bound)
    call                \* per calling thread: the call it is in

credVars == <<access_token, refresh_token, instance_id, expires_at>>
authVars == <<now, ticks, session_dir, access_token, refresh_token, instance_id,
              expires_at, disk, stored, issued, authCalls, call>>

\* A directory without hermes_credentials.json.
NoFile == [exists |-> FALSE, access_token |-> None, refresh_token |-> None,
           instance_id |-> None, expires_at |-> 0]

\* A json.dumps that writes the two tokens under each other's key.
DumpCredentialsSwapped(at, rt, iid, exp) ==
    [exists |-> TRUE, access_token |-> rt, refresh_token |-> at,
     instance_id |-> iid, expires_at |-> exp]

\* json.dumps of the four fields, written to the file      (auth.py:286-296)
DumpCredentials(at, rt, iid, exp) ==
    [exists |-> TRUE, access_token |-> at, refresh_token |-> rt,
     instance_id |-> iid, expires_at |-> exp]

\* The four fields of a credential, as a HermesAuth holds them.
Credential(at, rt, iid, exp) ==
    [exists |-> TRUE, access_token |-> at, refresh_token |-> rt,
     instance_id |-> iid, expires_at |-> exp]

\* The credential in memory.
InMemory == Credential(access_token, refresh_token, instance_id, expires_at)

\* The file an earlier run stored from the server answer numbered k.
SavedFile(k, exp) == DumpCredentials(k, k, k, exp)

\* A credentials file whose JSON object lacks one of the four keys.
CredentialKeys == <<"access_token", "refresh_token", "instance_id", "expires_at">>
LackingKey(k, exp, key) == [SavedFile(k, exp) EXCEPT ![key] = Missing]

\* resume(): the keys are read and assigned one after the other; the n-th
\* is reached when the ones before it are in the file      (auth.py:211-214)
Loads(f, n) == \A i \in 1..n : f[CredentialKeys[i]] # Missing

\* Headers that carry the Api-Version of the registration requests.
BearerV1(at) == [Authorization |-> <<"Bearer ", at>>, ApiVersion |-> "1.0"]

\* The headers dict of headers(): f"Bearer {self.access_token}" (auth.py:239-242)
Bearer(at) == [Authorization |-> <<"Bearer ", at>>, ApiVersion |-> "2.0"]
NoHeaders == [Authorization |-> <<"", None>>, ApiVersion |-> ""]

\* A thread that is in no call.  op: the operation; pc: the position in
\* it; d: the session_dir argument of resume(); decided/expired: whether
\* the call has read token_expired and what it read; refreshes: calls
\* of refresh_hermes_token() it made; sent: requests it sent; result, err:
\* how it ended; hdr, tok, flag: what it returned; status: the status code
\* answered to the last request of request_otp() (0: no answer); otp: the request_id of the
\* OtpRequest it returned; before: during a resume() call, the
\* credential that was in memory when it was called; resp, expin: inside
\* _store_credentials, the number and the expiresIn of the answer being
\* stored.
NoCall == [op |-> "none", pc |-> "idle", d |-> NoDir, decided |-> FALSE,
           expired |-> FALSE, refreshes |-> 0, sent |-> 0, result |-> "none",
           err |-> "none", hdr |-> NoHeaders, tok |-> None, flag |-> FALSE,
           status |-> 0, otp |-> None, before |-> Credential(None, None, None, 0),
           resp |-> None, expin |-> 0]

\* __init__ without session_dir, nothing on disk            (auth.py:90-102)
AuthConstructed ==
    /\ now = StartNow
    /\ ticks = 0
    /\ session_dir = NoDir
    /\ access_token = None
    /\ refresh_token = None
    /\ instance_id = None
    /\ expires_at = 0
    /\ disk = [d \in Dirs |-> NoFile]
    /\ stored = [d \in Dirs |-> NoFile]
    /\ issued = 0
    /\ authCalls = 0
    /\ call = [c \in Callers |-> NoCall]
vars == <<chanVars, authVars, evVars>>

Min(a, b) == IF a < b THEN a ELSE b

\* A Thread object that was never created (or was garbage collected).
\* (stop: what self._hub.stop() did in the rebuild step of the iteration
\* the thread is in: none, returned, raised.)
NoThreadRec == [pc |-> "unused", delay |-> 0, hist |-> <<>>, stopSeen |-> FALSE,
                stop |-> "none"]

\* What a loop thread did, in order: each sleep with its duration, each
\* entry into the rebuild step, each outcome of an iteration.
Ev(kind, d) == [ev |-> kind, d |-> d]

\* threading.Thread.is_alive(): started and run() not yet finished.
is_alive(t) == thr[t].pc \notin {"unused", "new", "done"}

\* Mutant of NextDelay: the cap is forgotten.
NextDelayUncapped(d) == d * RECONNECT_BACKOFF

\* delay = min(delay * _RECONNECT_BACKOFF, _RECONNECT_MAX_DELAY)
NextDelay(d) == Min(d * RECONNECT_BACKOFF, RECONNECT_MAX_DELAY)

\* Hub objects nothing refers to any more and that will deliver nothing:
\* Python frees them; their slot becomes available again.
CollectHubs(hs, cur, cp, pcs) ==
    [h \in Hubs |-> IF h # cur /\ hs[h] = "down"
                       /\ cp[h] = "none" /\ pcs[h] = "idle"
                    THEN "unbuilt" ELSE hs[h]]

\* Thread objects no longer referenced that are not running.
CollectThreads(ts, cur) ==
    [t \in Threads |-> IF t # cur /\ ts[t].pc \in {"new", "done"}
                       THEN NoThreadRec ELSE ts[t]]

\* hub.stop() of the transport library: closes a live connection, whose
\* close callback the transport thread then delivers; on a connection that
\* is not open it changes nothing (it may raise, callers ignore that).
HubStopOutcomes == {"returned", "raised"}
HubStopState(hs, h) == IF hs[h] = "live" THEN [hs EXCEPT ![h] = "down"] ELSE hs
HubStopPending(hs, cp, h, cause) == IF hs[h] = "live" THEN [cp EXCEPT ![h] = cause] ELSE cp

ChannelConstructed ==
    /\ stopped = FALSE
    /\ hub = NoHub
    /\ on_close = "none"
    /\ reconnect_thread = NoThread
    /\ hubState = [h \in Hubs |-> "unbuilt"]
    /\ closePending = [h \in Hubs |-> "none"]
    /\ cbpc = [h \in Hubs |-> "idle"]
    /\ thr = [t \in Threads |-> NoThreadRec]
    /\ callerpc = "idle"
    /\ callerResult = "none"
    /\ lastOp = "none"
    /\ calls = 0
    /\ fails = 0

\* A constructed channel holding a constructed HermesAuth.
Init == ChannelConstructed /\ AuthConstructed /\ DispatchConstructed

\* ----- the caller's thread: on_close(), start(), stop() -------------------

\* on_close(handler): self._on_close = handler              (signalr.py:102-103)
RegisterOnClose(hd) ==
    /\ callerpc = "idle"
    /\ hd # on_close
    /\ on_close' = hd
    /\ UNCHANGED <<stopped, hub, reconnect_thread, hubState, closePending, cbpc, thr,
                   callerpc, callerResult, lastOp, calls, fails>>
    /\ UNCHANGED <<authVars, evVars>>

\* start(), line 162: self._stopped = False
StartBegin ==
    /\ callerpc = "idle"
    /\ calls < MaxCalls
    /\ calls' = calls + 1
    /\ stopped' = FALSE
    /\ callerpc' = "start_build"
    /\ callerResult' = "none"
    /\ lastOp' = "start"
    /\ UNCHANGED <<hub, on_close, reconnect_thread, hubState, closePending, cbpc, thr, fails>>
    /\ UNCHANGED <<authVars, evVars>>

\* _build_hub(): a new hub object is assigned to self._hub; the object
\* self._hub referred to before loses that reference.        (signalr.py:110-158)
BuildHubState == [CollectHubs(hubState, NoHub, closePending, cbpc) EXCEPT ![
                     CHOOSE h \in Hubs :
                        /\ CollectHubs(hubState, NoHub, closePending, cbpc)[h] = "unbuilt"
                        /\ \A g \in Hubs :
                              CollectHubs(hubState, NoHub, closePending, cbpc)[g] = "unbuilt"
                              => h <= g] = "down"]
BuildHubRef == CHOOSE h \in Hubs :
                  /\ CollectHubs(hubState, NoHub, closePending, cbpc)[h] = "unbuilt"
                  /\ \A g \in Hubs :
                        CollectHubs(hubState, NoHub, closePending, cbpc)[g] = "unbuilt" => h <= g
\* _build_hub(), lines 145-158: the six server events and the open, close
\* and error callbacks are registered on the new hub object.
BuildHubWiring == [wiring EXCEPT ![BuildHubRef] = Wiring]
CanBuildHub == \E h \in Hubs : CollectHubs(hubState, NoHub, closePending, cbpc)[h] = "unbuilt"

\* start(), line 163: self._build_hub(); an exception goes to the caller.
StartBuild ==
    /\ callerpc = "start_build"
    /\ \/ /\ CanBuildHub
          /\ hub' = BuildHubRef
          /\ hubState' = BuildHubState
          /\ wiring' = BuildHubWiring
          /\ callerpc' = "start_open"
          /\ UNCHANGED callerResult
       \/ /\ callerpc' = "idle"
          /\ callerResult' = "raised"
          /\ UNCHANGED <<hub, hubState, wiring>>
    /\ UNCHANGED <<stopped, on_close, reconnect_thread, closePending, cbpc, thr, lastOp, calls, fails>>
    /\ UNCHANGED <<authVars, slots, registered, regLive, regs, events, dropped, invocation,
                   acks, last>>

\* hub.start() of the transport library on the object self._hub refers to
\* now: it opens the connection or raises; on an open connection it does
\* nothing.
HubStartOutcomes(h) ==
    IF hubState[h] = "live" THEN {"ok"} ELSE {"ok", "raise"}
HubStartState(h, outcome) ==
    IF outcome = "ok" THEN [hubState EXCEPT ![h] = "live"] ELSE hubState

\* start(), line 164: self._hub.start()
StartOpen ==
    /\ callerpc = "start_open"
    /\ \E outcome \in HubStartOutcomes(hub) :
          /\ hubState' = HubStartState(hub, outcome)
          /\ callerResult' = IF outcome = "ok" THEN "returned" ELSE "raised"
    /\ callerpc' = "idle"
    /\ UNCHANGED <<stopped, hub, on_close, reconnect_thread, closePending, cbpc, thr,
                   lastOp, calls, fails>>
    /\ UNCHANGED <<authVars, evVars>>

\* stop(), lines 169-170: self._stopped = True; if self._hub: ...
StopBegin ==
    /\ callerpc = "idle"
    /\ calls < MaxCalls
    /\ calls' = calls + 1
    /\ stopped' = TRUE
    /\ lastOp' = "stop"
    /\ thr' = [t \in Threads |->
                 IF thr[t].pc = "sleeping" THEN [thr[t] EXCEPT !.stopSeen = TRUE] ELSE thr[t]]
    /\ IF hub # NoHub
       THEN callerpc' = "stop_hub" /\ callerResult' = "none"
       ELSE callerpc' = "idle" /\ callerResult' = "returned"
    /\ UNCHANGED <<hub, on_close, reconnect_thread, hubState, closePending, cbpc, fails>>
    /\ UNCHANGED <<authVars, evVars>>

\* stop(), lines 171-175: try: self._hub.stop() except Exception: pass
StopHub ==
    /\ callerpc = "stop_hub"
    /\ closePending' = HubStopPending(hubState, closePending, hub, "stop")
    /\ hubState' = CollectHubs(HubStopState(hubState, hub), hub, closePending', cbpc)
    /\ callerpc' = "idle"
    /\ callerResult' = "returned"
    /\ UNCHANGED <<stopped, hub, on_close, reconnect_thread, cbpc, thr, lastOp, calls, fails>>
    /\ UNCHANGED <<authVars, evVars>>

\* ----- the environment ----------------------------------------------------

\* The connection of a live hub is lost and the library's own reconnect
\* gives up: the hub's transport thread will deliver the close callback.
Drop(h) ==
    /\ hubState[h] = "live"
    /\ hubState' = [hubState EXCEPT ![h] = "down"]
    /\ closePending' = [closePending EXCEPT ![h] = "drop"]
    /\ UNCHANGED <<stopped, hub, on_close, reconnect_thread, cbpc, thr, callerpc,
                   callerResult, lastOp, calls, fails>>
    /\ UNCHANGED <<authVars, evVars>>

\* ----- a hub's transport thread: _on_hub_close ----------------------------

\* _on_hub_close, lines 182-189: call the registered handler, then test
\* self._stopped.  A handler that raises ends the callback there.
OnHubClose(h) ==
    /\ wiring[h]["close"] = "_on_hub_close"
    /\ closePending[h] # "none"
    /\ cbpc[h] = "idle"
    /\ closePending' = [closePending EXCEPT ![h] = "none"]
    /\ \E outcome \in HandlerOutcomes :
          cbpc' = [cbpc EXCEPT ![h] =
                     IF on_close # "none" /\ outcome = "raises" THEN "idle"
                     ELSE IF ~stopped THEN "sched_check" ELSE "idle"]
    /\ hubState' = CollectHubs(hubState, hub, closePending', cbpc')
    /\ UNCHANGED <<stopped, hub, on_close, reconnect_thread, thr, callerpc, callerResult,
                   lastOp, calls, fails>>
    /\ UNCHANGED <<authVars, evVars>>

\* _schedule_full_reconnect, lines 193-197: the is_alive() test.
SchedCheck(h) ==
    /\ cbpc[h] = "sched_check"
    /\ cbpc' = [cbpc EXCEPT ![h] =
                  IF reconnect_thread # NoThread /\ is_alive(reconnect_thread)
                  THEN "idle" ELSE "sched_create"]
    /\ hubState' = CollectHubs(hubState, hub, closePending, cbpc')
    /\ UNCHANGED <<stopped, hub, on_close, reconnect_thread, closePending, thr, callerpc,
                   callerResult, lastOp, calls, fails>>
    /\ UNCHANGED <<authVars, evVars>>

\* _schedule_full_reconnect, lines 198-200: self._reconnect_thread = Thread(...)
SchedCreate(h) ==
    /\ cbpc[h] = "sched_create"
    /\ \E t \in Threads :
          /\ CollectThreads(thr, NoThread)[t].pc = "unused"
          /\ \A u \in Threads : CollectThreads(thr, NoThread)[u].pc = "unused" => t <= u
          /\ thr' = [CollectThreads(thr, NoThread) EXCEPT ![t] = [NoThreadRec EXCEPT !.pc = "new"]]
          /\ reconnect_thread' = t
    /\ cbpc' = [cbpc EXCEPT ![h] = "sched_start"]
    /\ UNCHANGED <<stopped, hub, on_close, hubState, closePending, callerpc, callerResult,
                   lastOp, calls, fails>>
    /\ UNCHANGED <<authVars, evVars>>

\* _schedule_full_reconnect, line 201: self._reconnect_thread.start().
\* Thread.start() on a thread that was already started raises RuntimeError.
\* The started thread begins _full_reconnect_loop, line 205.
SchedStart(h) ==
    /\ cbpc[h] = "sched_start"
    /\ thr' = IF thr[reconnect_thread].pc = "new"
              THEN [thr EXCEPT ![reconnect_thread] =
                       [@ EXCEPT !.pc = "while", !.delay = RECONNECT_BASE_DELAY]]
              ELSE thr
    /\ cbpc' = [cbpc EXCEPT ![h] = "idle"]
    /\ hubState' = CollectHubs(hubState, hub, closePending, cbpc')
    /\ UNCHANGED <<stopped, hub, on_close, reconnect_thread, closePending, callerpc,
                   callerResult, lastOp, calls, fails>>
    /\ UNCHANGED <<authVars, evVars>>

\* ----- a reconnect thread: _full_reconnect_loop ---------------------------

\* An iteration failed (lines 220-226 or 240-245): the delay is multiplied,
\* capped, and control goes back to the loop condition.
IterationFailed(t, outcome) ==
    [thr[t] EXCEPT !.pc = "while",
                   !.delay = NextDelay(@),
                   !.hist = Append(@, Ev(outcome, 0)),
                   !.stop = "none"]

\* line 206: while not self._stopped; lines 207-211: time.sleep(delay) begins.
LoopWhile(t) ==
    /\ thr[t].pc = "while"
    /\ thr' = CollectThreads(
                [thr EXCEPT ![t] =
                    IF stopped THEN [@ EXCEPT !.pc = "done"]
                    ELSE [@ EXCEPT !.pc = "sleeping",
                                   !.hist = Append(@, Ev("sleep", thr[t].delay)),
                                   !.stopSeen = FALSE]],
                reconnect_thread)
    /\ UNCHANGED <<stopped, hub, on_close, reconnect_thread, hubState, closePending, cbpc,
                   callerpc, callerResult, lastOp, calls, fails>>
    /\ UNCHANGED <<authVars, evVars>>

\* lines 211-213: the sleep ends; if self._stopped: return
LoopWake(t) ==
    /\ thr[t].pc = "sleeping"
    /\ thr' = CollectThreads(
                [thr EXCEPT ![t].pc = IF stopped THEN "done" ELSE "token", ![t].stopSeen = FALSE],
                reconnect_thread)
    /\ UNCHANGED <<stopped, hub, on_close, reconnect_thread, hubState, closePending, cbpc,
                   callerpc, callerResult, lastOp, calls, fails>>
    /\ UNCHANGED <<authVars, evVars>>

\* Mutant of LoopToken: the refresh is not guarded by try/except, so a
\* refresh that raises ends the thread.
LoopTokenGivesUp(t, budget) ==
    /\ thr[t].pc = "token"
    /\ \E token_expired \in BOOLEAN :
          \/ /\ thr' = [thr EXCEPT ![t].pc = "teardown"]
             /\ UNCHANGED fails
          \/ /\ token_expired
             /\ fails < budget
             /\ thr' = [thr EXCEPT ![t].pc = "done",
                                   ![t].hist = Append(@, Ev("token_fail", 0))]
             /\ fails' = fails + 1
    /\ UNCHANGED <<stopped, hub, on_close, reconnect_thread, hubState, closePending, cbpc,
                   callerpc, callerResult, lastOp, calls>>
    /\ UNCHANGED <<authVars, evVars>>

\* lines 216-226: if self.auth.token_expired (a comparison of the clock
\* with the expiry time, read here), refresh the token; a refresh that
\* raises (any Exception) multiplies the delay and continues the loop.
LoopToken(t, budget) ==
    /\ thr[t].pc = "token"
    /\ \E token_expired \in BOOLEAN :
          \/ /\ ~token_expired
             /\ thr' = [thr EXCEPT ![t].pc = "teardown"]
             /\ UNCHANGED fails
          \/ /\ token_expired
             /\ thr' = [thr EXCEPT ![t].pc = "teardown"]
             /\ UNCHANGED fails
          \/ /\ token_expired
             /\ fails < budget
             /\ \E e \in RefreshFailures :
                   thr' = [thr EXCEPT ![t] = IterationFailed(t, "token_fail")]
             /\ fails' = fails + 1
    /\ UNCHANGED <<stopped, hub, on_close, reconnect_thread, hubState, closePending, cbpc,
                   callerpc, callerResult, lastOp, calls>>
    /\ UNCHANGED <<authVars, evVars>>

\* Mutant of LoopTeardown: an exception of self._hub.stop() is not caught
\* by an inner try and fails the iteration.
LoopTeardownPropagates(t) ==
    /\ thr[t].pc = "teardown"
    /\ \E outcome \in HubStopOutcomes :
          /\ outcome = "raised" => fails < MaxFails
          /\ thr' = [thr EXCEPT ![t] =
                       IF outcome = "raised" /\ hub # NoHub
                       THEN IterationFailed(t, "rebuild_fail")
                       ELSE [@ EXCEPT !.pc = "build",
                                      !.hist = Append(@, Ev("attempt", 0)),
                                      !.stop = IF hub # NoHub THEN outcome ELSE "none"]]
          /\ fails' = IF outcome = "raised" /\ hub # NoHub THEN fails + 1 ELSE fails
    /\ IF hub # NoHub
       THEN /\ closePending' = HubStopPending(hubState, closePending, hub, "teardown")
            /\ hubState' = CollectHubs(HubStopState(hubState, hub), hub, closePending', cbpc)
       ELSE UNCHANGED <<hubState, closePending>>
    /\ UNCHANGED <<stopped, hub, on_close, reconnect_thread, cbpc, callerpc, callerResult,
                   lastOp, calls>>
    /\ UNCHANGED <<authVars, evVars>>

\* lines 229-234: if self._hub: try: self._hub.stop() except Exception: pass.
\* Whether hub.stop() returns or raises, the connection it was called on
\* is not left open, and control goes on to line 236.
LoopTeardown(t) ==
    /\ thr[t].pc = "teardown"
    /\ \E outcome \in HubStopOutcomes :
          thr' = [thr EXCEPT ![t].pc = "build",
                             ![t].hist = Append(@, Ev("attempt", 0)),
                             ![t].stop = IF hub # NoHub THEN outcome ELSE "none"]
    /\ IF hub # NoHub
       THEN /\ closePending' = HubStopPending(hubState, closePending, hub, "teardown")
            /\ hubState' = CollectHubs(HubStopState(hubState, hub), hub, closePending', cbpc)
       ELSE UNCHANGED <<hubState, closePending>>
    /\ UNCHANGED <<stopped, hub, on_close, reconnect_thread, cbpc, callerpc, callerResult,
                   lastOp, calls, fails>>
    /\ UNCHANGED <<authVars, evVars>>

\* line 236: self._build_hub(); an exception is caught at line 240.
LoopBuild(t, budget) ==
    /\ thr[t].pc = "build"
    /\ \/ /\ CanBuildHub
          /\ hub' = BuildHubRef
          /\ hubState' = BuildHubState
          /\ wiring' = BuildHubWiring
          /\ thr' = [thr EXCEPT ![t].pc = "open"]
          /\ UNCHANGED fails
       \/ /\ fails < budget
          /\ thr' = [thr EXCEPT ![t] = IterationFailed(t, "rebuild_fail")]
          /\ fails' = fails + 1
          /\ UNCHANGED <<hub, hubState, wiring>>
    /\ UNCHANGED <<stopped, on_close, reconnect_thread, closePending, cbpc, callerpc,
                   callerResult, lastOp, calls>>
    /\ UNCHANGED <<authVars, slots, registered, regLive, regs, events, dropped, invocation,
                   acks, last>>

\* Mutant of LoopOpen: the return after a successful start is missing, so
\* the loop goes round again.
LoopOpenNoReturn(t, budget) ==
    /\ thr[t].pc = "open"
    /\ \E outcome \in HubStartOutcomes(hub) :
          /\ outcome = "raise" => fails < budget
          /\ hubState' = HubStartState(hub, outcome)
          /\ thr' = [thr EXCEPT ![t] =
                       IF outcome = "ok"
                       THEN [@ EXCEPT !.pc = "while", !.hist = Append(@, Ev("ok", 0)),
                                      !.stop = "none"]
                       ELSE IterationFailed(t, "rebuild_fail")]
          /\ fails' = IF outcome = "ok" THEN fails ELSE fails + 1
    /\ UNCHANGED <<stopped, hub, on_close, reconnect_thread, closePending, cbpc, callerpc,
                   callerResult, lastOp, calls>>
    /\ UNCHANGED <<authVars, evVars>>

\* lines 237-239: self._hub.start(); return on success, line 240 on failure.
LoopOpen(t, budget) ==
    /\ thr[t].pc = "open"
    /\ \E outcome \in HubStartOutcomes(hub) :
          /\ outcome = "raise" => fails < budget
          /\ hubState' = HubStartState(hub, outcome)
          /\ thr' = [thr EXCEPT ![t] =
                       IF outcome = "ok"
                       THEN [@ EXCEPT !.pc = "returning", !.hist = Append(@, Ev("ok", 0))]
                       ELSE IterationFailed(t, "rebuild_fail")]
          /\ fails' = IF outcome = "ok" THEN fails ELSE fails + 1
    /\ UNCHANGED <<stopped, hub, on_close, reconnect_thread, closePending, cbpc, callerpc,
                   callerResult, lastOp, calls>>
    /\ UNCHANGED <<authVars, evVars>>

\* line 239: the function returns and the thread ends; until then
\* is_alive() is still true.
LoopExit(t) ==
    /\ thr[t].pc = "returning"
    /\ thr' = CollectThreads([thr EXCEPT ![t].pc = "done", ![t].stop = "none"],
                             reconnect_thread)
    /\ UNCHANGED <<stopped, hub, on_close, reconnect_thread, hubState, closePending, cbpc,
                   callerpc, callerResult, lastOp, calls, fails>>
    /\ UNCHANGED <<authVars, evVars>>

\* ----- specification ------------------------------------------------------

Next ==
    \/ \E hd \in Handlers : RegisterOnClose(hd)
    \/ StartBegin
    \/ StartBuild
    \/ StartOpen
    \/ StopBegin
    \/ StopHub
    \/ \E h \in Hubs : Drop(h)
    \/ \E h \in Hubs : OnHubClose(h)
    \/ \E h \in Hubs : SchedCheck(h)
    \/ \E h \in Hubs : SchedCreate(h)
    \/ \E h \in Hubs : SchedStart(h)
    \/ \E t \in Threads : LoopWhile(t)
    \/ \E t \in Threads : LoopWake(t)
    \/ \E t \in Threads : LoopToken(t, MaxRaceFails)
    \/ \E t \in Threads : LoopTeardown(t)
    \/ \E t \in Threads : LoopBuild(t, MaxRaceFails)
    \/ \E t \in Threads : LoopOpen(t, MaxRaceFails)
    \/ \E t \in Threads : LoopExit(t)

Spec == Init /\ [][Next]_vars

\* The channel after a first start() that returned normally: hub 1 is open
\* (the state Init reaches by StartBegin, StartBuild, StartOpen).
ChannelStarted ==
    /\ stopped = FALSE
    /\ hub = 1
    /\ on_close = "none"
    /\ reconnect_thread = NoThread
    /\ hubState = [h \in Hubs |-> IF h = 1 THEN "live" ELSE "unbuilt"]
    /\ closePending = [h \in Hubs |-> "none"]
    /\ cbpc = [h \in Hubs |-> "idle"]
    /\ thr = [t \in Threads |-> NoThreadRec]
    /\ callerpc = "idle"
    /\ callerResult = "returned"
    /\ lastOp = "start"
    /\ calls = 1
    /\ fails = 0
    /\ wiring = [h \in Hubs |-> IF h = 1 THEN Wiring ELSE NoWiring]
    /\ regs = 0
    /\ events = 0
    /\ dropped = 0
    /\ invocation = NoInvocation
    /\ acks = <<>>
    /\ last = NoDelivery

\* The started channel of an application that registered no handler.
InitStarted ==
    /\ ChannelStarted
    /\ AuthConstructed
    /\ slots = [k \in Slots |-> NoHandler]
    /\ registered = slots
    /\ regLive = FALSE

\* The steps of hub h's transport thread.
CallbackStep(h) ==
    \/ OnHubClose(h)
    \/ SchedCheck(h)
    \/ SchedCreate(h)
    \/ SchedStart(h)

\* The steps of reconnect thread t.
LoopStep(t, budget) ==
    \/ LoopWhile(t)
    \/ LoopWake(t)
    \/ LoopToken(t, budget)
    \/ LoopTeardown(t)
    \/ LoopBuild(t, budget)
    \/ LoopOpen(t, budget)
    \/ LoopExit(t)

\* A started channel whose connection drops, with up to MaxFails failed
\* rebuild iterations and a stop() at any moment.  Every thread that can
\* take a step eventually takes it (the threads are scheduled by the OS).
NextBackoff ==
    \/ StopBegin
    \/ StopHub
    \/ \E h \in Hubs : Drop(h)
    \/ \E h \in Hubs : CallbackStep(h)
    \/ \E t \in Threads : LoopStep(t, MaxFails)

SpecBackoff ==
    /\ InitStarted
    /\ [][NextBackoff]_vars
    /\ \A h \in Hubs : WF_vars(CallbackStep(h))
    /\ \A t \in Threads : WF_vars(LoopStep(t, MaxFails))

\* ----- HermesAuth: the operations -----------------------------------------

\* The two RuntimeErrors of HermesAuth, by their messages   (auth.py:225, 253)
NoSavedCredentials == "RuntimeError: No saved credentials found"
NoRefreshToken == "RuntimeError: No refresh token / instance ID"

\* Python truth value of a token or id: None and "" are false.
Falsy(x) == x \in {None, EmptyStr}

\* A token_expired whose comparison is strict.
token_expiredStrict ==
    IF Falsy(access_token) THEN TRUE ELSE now > expires_at - TOKEN_EXPIRY_BUFFER

\* token_expired: if not self.access_token: return True;
\* return time.time() >= self.expires_at - 60                (auth.py:244-248)
token_expired ==
    IF Falsy(access_token) THEN TRUE ELSE now >= expires_at - TOKEN_EXPIRY_BUFFER

\* The call of thread c ends: it returned or raised err.
Ended(c, res, e) ==
    [call[c] EXCEPT !.pc = "done", !.result = res, !.err = e, !.before = NoCall.before]

\* Where each operation starts.
FirstPc(op) ==
    CASE op = "token_expired" -> "read"
      [] op \in {"headers", "token_factory", "loop"} -> "check"
      [] op = "resume" -> "load"
      [] op = "refresh_hermes_token" -> "refresh"
      [] op = "confirm_otp" -> "confirm"
      [] op = "request_otp" -> "otp"

\* Thread c calls operation op; d is the session_dir argument of resume().
Call(c, op, d) ==
    /\ call[c].pc \in {"idle", "done"}
    /\ authCalls < MaxAuthCalls
    /\ op \in OpsOf(c)
    /\ op = "resume" \/ d = NoDir
    /\ authCalls' = authCalls + 1
    /\ call' = [call EXCEPT ![c] =
                    [NoCall EXCEPT !.op = op, !.pc = FirstPc(op), !.d = d,
                                   !.before = IF op = "resume" THEN InMemory ELSE @]]
    /\ UNCHANGED <<now, ticks, session_dir, credVars, disk, stored, issued>>
    /\ UNCHANGED <<chanVars, evVars>>

\* The clock advances.
Tick(dt) ==
    /\ ticks < MaxTicks
    /\ ticks' = ticks + 1
    /\ now' = now + dt
    /\ UNCHANGED <<session_dir, credVars, disk, stored, issued, authCalls, call>>
    /\ UNCHANGED <<chanVars, evVars>>

\* A read of the token_expired property by a caller.        (auth.py:244-248)
TokenExpiredRead(c) ==
    /\ call[c].op = "token_expired"
    /\ call[c].pc = "read"
    /\ call' = [call EXCEPT ![c] = [Ended(c, "returned", "none") EXCEPT
                    !.decided = TRUE, !.expired = token_expired, !.flag = token_expired]]
    /\ UNCHANGED <<now, ticks, session_dir, credVars, disk, stored, issued, authCalls>>
    /\ UNCHANGED <<chanVars, evVars>>

\* headers(): if self.token_expired: self.refresh_hermes_token()
\*                                                          (auth.py:237-238)
HeadersCheck(c) ==
    /\ call[c].op = "headers"
    /\ call[c].pc = "check"
    /\ call' = [call EXCEPT ![c].decided = TRUE, ![c].expired = token_expired,
                            ![c].pc = IF token_expired THEN "refresh" ELSE "ret"]
    /\ UNCHANGED <<now, ticks, session_dir, credVars, disk, stored, issued, authCalls>>
    /\ UNCHANGED <<chanVars, evVars>>

\* headers(): return {"Authorization": f"Bearer {self.access_token}",
\* "Api-Version": "2.0"}                                     (auth.py:239-242)
HeadersReturn(c) ==
    /\ call[c].op = "headers"
    /\ call[c].pc = "ret"
    /\ call' = [call EXCEPT ![c] = [Ended(c, "returned", "none") EXCEPT
                    !.hdr = Bearer(access_token)]]
    /\ UNCHANGED <<now, ticks, session_dir, credVars, disk, stored, issued, authCalls>>
    /\ UNCHANGED <<chanVars, evVars>>

\* A token_factory that refreshes on every call, expired or not.
TokenFactoryCheckAlways(c) ==
    /\ call[c].op = "token_factory"
    /\ call[c].pc = "check"
    /\ call' = [call EXCEPT ![c].decided = TRUE, ![c].expired = token_expired,
                            ![c].pc = "refresh"]
    /\ UNCHANGED <<now, ticks, session_dir, credVars, disk, stored, issued, authCalls>>
    /\ UNCHANGED <<chanVars, evVars>>

\* token_factory(): if self.auth.token_expired:
\* self.auth.refresh_hermes_token()                       (signalr.py:116-118)
TokenFactoryCheck(c) ==
    /\ call[c].op = "token_factory"
    /\ call[c].pc = "check"
    /\ call' = [call EXCEPT ![c].decided = TRUE, ![c].expired = token_expired,
                            ![c].pc = IF token_expired THEN "refresh" ELSE "ret"]
    /\ UNCHANGED <<now, ticks, session_dir, credVars, disk, stored, issued, authCalls>>
    /\ UNCHANGED <<chanVars, evVars>>

\* token_factory(): return self.auth.access_token             (signalr.py:122)
TokenFactoryReturn(c) ==
    /\ call[c].op = "token_factory"
    /\ call[c].pc = "ret"
    /\ call' = [call EXCEPT ![c] = [Ended(c, "returned", "none") EXCEPT
                    !.tok = access_token]]
    /\ UNCHANGED <<now, ticks, session_dir, credVars, disk, stored, issued, authCalls>>
    /\ UNCHANGED <<chanVars, evVars>>

\* A rebuild loop that decides expiry by its own comparison with the clock.
LoopTokenCheckOwnExpiry(c) ==
    /\ call[c].op = "loop"
    /\ call[c].pc = "check"
    /\ call' = [call EXCEPT ![c] =
                    IF now >= expires_at
                    THEN [call[c] EXCEPT !.decided = TRUE, !.expired = TRUE, !.pc = "refresh"]
                    ELSE [Ended(c, "returned", "none") EXCEPT !.decided = TRUE]]
    /\ UNCHANGED <<now, ticks, session_dir, credVars, disk, stored, issued, authCalls>>
    /\ UNCHANGED <<chanVars, evVars>>

\* _full_reconnect_loop: if self.auth.token_expired:
\* self.auth.refresh_hermes_token()                       (signalr.py:216-219)
LoopTokenCheck(c) ==
    /\ call[c].op = "loop"
    /\ call[c].pc = "check"
    /\ call' = [call EXCEPT ![c] =
                    IF token_expired
                    THEN [call[c] EXCEPT !.decided = TRUE, !.expired = TRUE, !.pc = "refresh"]
                    ELSE [Ended(c, "returned", "none") EXCEPT !.decided = TRUE]]
    /\ UNCHANGED <<now, ticks, session_dir, credVars, disk, stored, issued, authCalls>>
    /\ UNCHANGED <<chanVars, evVars>>

\* resume(): d = session_dir or self.session_dir              (auth.py:206)
ResumeDir(c) == IF call[c].d # NoDir THEN call[c].d ELSE session_dir

\* A resume() that returns silently when there is no file.
ResumeLoadSilent(c) ==
    /\ call[c].op = "resume"
    /\ call[c].pc = "load"
    /\ LET d == ResumeDir(c) IN
          IF d # NoDir /\ disk[d].exists
          THEN /\ access_token' = IF Loads(disk[d], 1) THEN disk[d].access_token
                                  ELSE access_token
               /\ refresh_token' = IF Loads(disk[d], 2) THEN disk[d].refresh_token
                                   ELSE refresh_token
               /\ instance_id' = IF Loads(disk[d], 3) THEN disk[d].instance_id
                                 ELSE instance_id
               /\ expires_at' = IF Loads(disk[d], 4) THEN disk[d].expires_at
                                ELSE expires_at
               /\ call' = [call EXCEPT ![c] =
                               IF Loads(disk[d], 4) THEN [call[c] EXCEPT !.pc = "check"]
                               ELSE Ended(c, "raised", "KeyError")]
          ELSE /\ call' = [call EXCEPT ![c] = Ended(c, "returned", "none")]
               /\ UNCHANGED credVars
    /\ UNCHANGED <<now, ticks, session_dir, disk, stored, issued, authCalls>>
    /\ UNCHANGED <<chanVars, evVars>>

\* resume(): if the file exists the four fields are loaded from it, each
\* assigned as its key is read, a missing key raising KeyError; else
\* RuntimeError("No saved credentials found ...")          (auth.py:206-228)
ResumeLoad(c) ==
    /\ call[c].op = "resume"
    /\ call[c].pc = "load"
    /\ LET d == ResumeDir(c) IN
          IF d # NoDir /\ disk[d].exists
          THEN /\ access_token' = IF Loads(disk[d], 1) THEN disk[d].access_token
                                  ELSE access_token
               /\ refresh_token' = IF Loads(disk[d], 2) THEN disk[d].refresh_token
                                   ELSE refresh_token
               /\ instance_id' = IF Loads(disk[d], 3) THEN disk[d].instance_id
                                 ELSE instance_id
               /\ expires_at' = IF Loads(disk[d], 4) THEN disk[d].expires_at
                                ELSE expires_at
               /\ call' = [call EXCEPT ![c] =
                               IF Loads(disk[d], 4) THEN [call[c] EXCEPT !.pc = "check"]
                               ELSE Ended(c, "raised", "KeyError")]
          ELSE /\ call' = [call EXCEPT ![c] = Ended(c, "raised", NoSavedCredentials)]
               /\ UNCHANGED credVars
    /\ UNCHANGED <<now, ticks, session_dir, disk, stored, issued, authCalls>>
    /\ UNCHANGED <<chanVars, evVars>>

\* A resume() that refreshes whatever it loaded.
ResumeCheckAlways(c) ==
    /\ call[c].op = "resume"
    /\ call[c].pc = "check"
    /\ call' = [call EXCEPT ![c] =
                    [call[c] EXCEPT !.decided = TRUE, !.expired = token_expired,
                                    !.pc = "refresh"]]
    /\ UNCHANGED <<now, ticks, session_dir, credVars, disk, stored, issued, authCalls>>
    /\ UNCHANGED <<chanVars, evVars>>

\* resume(): if self.token_expired: self.refresh_hermes_token()
\*                                                          (auth.py:222-223)
ResumeCheck(c) ==
    /\ call[c].op = "resume"
    /\ call[c].pc = "check"
    /\ call' = [call EXCEPT ![c] =
                    IF token_expired
                    THEN [call[c] EXCEPT !.decided = TRUE, !.expired = TRUE, !.pc = "refresh"]
                    ELSE [Ended(c, "returned", "none") EXCEPT !.decided = TRUE]]
    /\ UNCHANGED <<now, ticks, session_dir, credVars, disk, stored, issued, authCalls>>
    /\ UNCHANGED <<chanVars, evVars>>

\* refresh_hermes_token(): RuntimeError without a refresh token or an
\* instance id, else the POST to Registration/App/Refresh is sent
\*                                                          (auth.py:252-265)
RefreshSend(c) ==
    /\ call[c].pc = "refresh"
    /\ call' = [call EXCEPT ![c] =
                    IF Falsy(refresh_token) \/ Falsy(instance_id)
                    THEN [Ended(c, "raised", NoRefreshToken) EXCEPT !.refreshes = @ + 1]
                    ELSE [call[c] EXCEPT !.refreshes = @ + 1, !.sent = @ + 1,
                                         !.pc = "inflight"]]
    /\ UNCHANGED <<now, ticks, session_dir, credVars, disk, stored, issued, authCalls>>
    /\ UNCHANGED <<chanVars, evVars>>

\* A confirm_otp that forgets the credential it holds before it asks for
\* a new one.
ConfirmSendForgets(c) ==
    /\ call[c].op = "confirm_otp"
    /\ call[c].pc = "confirm"
    /\ call' = [call EXCEPT ![c].sent = @ + 1, ![c].pc = "inflight"]
    /\ access_token' = None
    /\ refresh_token' = None
    /\ UNCHANGED <<now, ticks, session_dir, instance_id, expires_at, disk, stored, issued,
                   authCalls>>
    /\ UNCHANGED <<chanVars, evVars>>

\* confirm_otp(): the POST to Registration/App/Confirm is sent
\*                                                          (auth.py:168-184)
ConfirmSend(c) ==
    /\ call[c].op = "confirm_otp"
    /\ call[c].pc = "confirm"
    /\ call' = [call EXCEPT ![c].sent = @ + 1, ![c].pc = "inflight"]
    /\ UNCHANGED <<now, ticks, session_dir, credVars, disk, stored, issued, authCalls>>
    /\ UNCHANGED <<chanVars, evVars>>

\* A _store_credentials that never writes the file.
store_credentialsMemoryOnly(iid, at, rt, expiresIn) ==
    /\ access_token' = at
    /\ refresh_token' = rt
    /\ instance_id' = iid
    /\ expires_at' = now + expiresIn
    /\ disk' = disk
    /\ stored' = IF session_dir # NoDir
                 THEN [stored EXCEPT ![session_dir] =
                          Credential(at, rt, iid, now + expiresIn)]
                 ELSE stored

\* A _store_credentials that keeps the refresh token it had.
store_credentialsKeepsRefresh(iid, at, rt, expiresIn) ==
    /\ access_token' = at
    /\ refresh_token' = refresh_token
    /\ instance_id' = iid
    /\ expires_at' = now + expiresIn
    /\ disk' = IF session_dir # NoDir
               THEN [disk EXCEPT ![session_dir] =
                        DumpCredentials(at, refresh_token, iid, now + expiresIn)]
               ELSE disk
    /\ stored' = IF session_dir # NoDir
                 THEN [stored EXCEPT ![session_dir] =
                          Credential(at, rt, iid, now + expiresIn)]
                 ELSE stored

\* _store_credentials(instance_id, tokens): the four fields are set, then
\* written to the file of self.session_dir if there is one  (auth.py:274-298)
store_credentials(iid, at, rt, expiresIn) ==
    /\ access_token' = at
    /\ refresh_token' = rt
    /\ instance_id' = iid
    /\ expires_at' = now + expiresIn
    /\ disk' = IF session_dir # NoDir
               THEN [disk EXCEPT ![session_dir] =
                        DumpCredentials(at, rt, iid, now + expiresIn)]
               ELSE disk
    /\ stored' = IF session_dir # NoDir
                 THEN [stored EXCEPT ![session_dir] =
                          Credential(at, rt, iid, now + expiresIn)]
                 ELSE stored

\* How a call goes on after refresh_hermes_token() returned: headers() and
\* token_factory() read the access token, the others are done.
AfterRefresh(c) ==
    IF call[c].op \in {"headers", "token_factory"}
    THEN [call[c] EXCEPT !.pc = "ret"]
    ELSE Ended(c, "returned", "none")

\* A manager that sends a failed request once more before giving up.
AnswerRetries(c) ==
    \/ /\ call[c].sent < 2
       /\ call' = [call EXCEPT ![c].sent = @ + 1]
       /\ UNCHANGED <<credVars, disk, stored, issued>>
    \/ /\ call[c].sent >= 2
       /\ \E e \in RequestFailures :
             call' = [call EXCEPT ![c] = Ended(c, "raised", e)]
       /\ UNCHANGED <<credVars, disk, stored, issued>>
    \/ /\ issued < MaxIssued
       /\ issued' = issued + 1
       /\ \E at \in {issued + 1, EmptyStr}, expiresIn \in ExpiresIns :
             store_credentials(issued + 1, at, issued + 1, expiresIn)
       /\ call' = [call EXCEPT ![c] = AfterRefresh(c)]

\* The answer to a request: httpx.post raises, raise_for_status or
\* model_validate raises, or the answer numbered issued + 1 is stored; its
\* accessToken is any str, its expiresIn any int.
\* (auth.py:184-201 and 265-270; token_factory logs and re-raises,
\* signalr.py:119-121)
Answer(c) ==
    \/ /\ \E e \in RequestFailures :
             call' = [call EXCEPT ![c] = Ended(c, "raised", e)]
       /\ UNCHANGED <<credVars, disk, stored, issued>>
    \/ /\ issued < MaxIssued
       /\ issued' = issued + 1
       /\ \E at \in {issued + 1, EmptyStr}, expiresIn \in ExpiresIns :
             store_credentials(issued + 1, at, issued + 1, expiresIn)
       /\ call' = [call EXCEPT ![c] = AfterRefresh(c)]

\* refresh_hermes_token(): the answer of Registration/App/Refresh
\*                                                          (auth.py:265-270)
RefreshRecv(c) ==
    /\ call[c].op # "confirm_otp"
    /\ call[c].pc = "inflight"
    /\ Answer(c)
    /\ UNCHANGED <<now, ticks, session_dir, authCalls>>
    /\ UNCHANGED <<chanVars, evVars>>

\* confirm_otp(): the answer of Registration/App/Confirm    (auth.py:184-201)
ConfirmRecv(c) ==
    /\ call[c].op = "confirm_otp"
    /\ call[c].pc = "inflight"
    /\ Answer(c)
    /\ UNCHANGED <<now, ticks, session_dir, authCalls>>
    /\ UNCHANGED <<chanVars, evVars>>

\* request_otp(): the POST to Registration/App is sent       (auth.py:126-136)
OtpSend(c) ==
    /\ call[c].op = "request_otp"
    /\ call[c].pc = "otp"
    /\ call' = [call EXCEPT ![c].sent = @ + 1, ![c].pc = "otp_wait1"]
    /\ UNCHANGED <<now, ticks, session_dir, credVars, disk, stored, issued, authCalls>>
    /\ UNCHANGED <<chanVars, evVars>>

\* request_otp() from resp.raise_for_status() on: a non-2xx status raises
\* HTTPStatusError, a body that does not validate raises ValidationError,
\* else an OtpRequest with the requestId of this answer is returned (the
\* answer to the n-th request carries requestId n).         (auth.py:143-156)
OtpFinish(c, st) ==
    IF st # 200
    THEN call' = [call EXCEPT ![c] =
                     [Ended(c, "raised", "HTTPStatusError") EXCEPT !.status = st]]
    ELSE \/ call' = [call EXCEPT ![c] =
                        [Ended(c, "returned", "none") EXCEPT !.status = st,
                                                             !.otp = call[c].sent]]
         \/ call' = [call EXCEPT ![c] =
                        [Ended(c, "raised", "ValidationError") EXCEPT !.status = st]]

\* request_otp(): the first httpx.post raises, or answers 409 (the call goes
\* on to the cooldown), or answers anything else            (auth.py:136-143)
OtpFirstAnswer(c) ==
    /\ call[c].op = "request_otp"
    /\ call[c].pc = "otp_wait1"
    /\ \/ call' = [call EXCEPT ![c] =
                       [Ended(c, "raised", "TransportError") EXCEPT !.status = 0]]
       \/ \E st \in OtpStatuses :
             IF st = 409
             THEN call' = [call EXCEPT ![c].status = st, ![c].pc = "cooldown"]
             ELSE OtpFinish(c, st)
    /\ UNCHANGED <<now, ticks, session_dir, credVars, disk, stored, issued, authCalls>>
    /\ UNCHANGED <<chanVars, evVars>>

\* request_otp(): time.sleep(30), then the second httpx.post (auth.py:140-141)
OtpCooldown(c) ==
    /\ call[c].op = "request_otp"
    /\ call[c].pc = "cooldown"
    /\ now' = now + OTP_COOLDOWN
    /\ call' = [call EXCEPT ![c].sent = @ + 1, ![c].pc = "otp_wait2"]
    /\ UNCHANGED <<ticks, session_dir, credVars, disk, stored, issued, authCalls>>
    /\ UNCHANGED <<chanVars, evVars>>

\* A request_otp() that goes back to the cooldown on every 409.
OtpSecondAnswerRetries(c) ==
    /\ call[c].op = "request_otp"
    /\ call[c].pc = "otp_wait2"
    /\ \/ call' = [call EXCEPT ![c] =
                       [Ended(c, "raised", "TransportError") EXCEPT !.status = 0]]
       \/ \E st \in OtpStatuses :
             IF st = 409
             THEN call' = [call EXCEPT ![c].status = st, ![c].pc = "cooldown"]
             ELSE OtpFinish(c, st)
    /\ UNCHANGED <<now, ticks, session_dir, credVars, disk, stored, issued, authCalls>>
    /\ UNCHANGED <<chanVars, evVars>>

\* request_otp(): the second httpx.post raises, or its answer, a 409
\* included, goes to resp.raise_for_status()                (auth.py:141-143)
OtpSecondAnswer(c) ==
    /\ call[c].op = "request_otp"
    /\ call[c].pc = "otp_wait2"
    /\ \/ call' = [call EXCEPT ![c] =
                       [Ended(c, "raised", "TransportError") EXCEPT !.status = 0]]
       \/ \E st \in OtpStatuses : OtpFinish(c, st)
    /\ UNCHANGED <<now, ticks, session_dir, credVars, disk, stored, issued, authCalls>>
    /\ UNCHANGED <<chanVars, evVars>>

\* A HermesAuth constructed with or without a session directory, on a disk
\* where earlier runs may have left credential files, expired or not.
InitAuth ==
    /\ ChannelConstructed
    /\ DispatchConstructed
    /\ now = StartNow
    /\ ticks = 0
    /\ session_dir \in {NoDir, "A"}
    /\ access_token = None
    /\ refresh_token = None
    /\ instance_id = None
    /\ expires_at = 0
    /\ disk \in [Dirs -> {NoFile} \cup {SavedFile(OldToken, e) : e \in SavedExpiries}]
    /\ stored = [d \in Dirs |-> NoFile]
    /\ issued = 0
    /\ authCalls = 0
    /\ call = [c \in Callers |-> NoCall]

NextAuth ==
    \/ \E c \in Callers, op \in Ops, d \in Dirs \cup {NoDir} : Call(c, op, d)
    \/ \E dt \in TickSteps : Tick(dt)
    \/ \E c \in Callers : TokenExpiredRead(c)
    \/ \E c \in Callers : HeadersCheck(c)
    \/ \E c \in Callers : HeadersReturn(c)
    \/ \E c \in Callers : TokenFactoryCheck(c)
    \/ \E c \in Callers : TokenFactoryReturn(c)
    \/ \E c \in Callers : LoopTokenCheck(c)
    \/ \E c \in Callers : ResumeLoad(c)
    \/ \E c \in Callers : ResumeCheck(c)
    \/ \E c \in Callers : RefreshSend(c)
    \/ \E c \in Callers : RefreshRecv(c)
    \/ \E c \in Callers : ConfirmSend(c)
    \/ \E c \in Callers : ConfirmRecv(c)
    \/ \E c \in Callers : OtpSend(c)
    \/ \E c \in Callers : OtpFirstAnswer(c)
    \/ \E c \in Callers : OtpCooldown(c)
    \/ \E c \in Callers : OtpSecondAnswer(c)

\* The threads of one process calling into one HermesAuth in any order
\* and at any time.
SpecAuth == InitAuth /\ [][NextAuth]_vars

\* No other thread is inside a call.
Quiet(c) == \A c2 \in Callers \ {c} : call[c2].pc \in {"idle", "done"}

\* Thread c calls operation op while no other call is running.
CallSeq(c, op, d) == Quiet(c) /\ Call(c, op, d)

\* HermesAuth(session_dir=sd) constructed anew while no call is running:
\* the process from here on uses the new object, whose four fields are
\* unset; the files stay as they are.                        (auth.py:90-102)
Construct(sd) ==
    /\ \A c \in Callers : call[c].pc \in {"idle", "done"}
    /\ authCalls < MaxAuthCalls
    /\ authCalls' = authCalls + 1
    /\ session_dir' = sd
    /\ access_token' = None
    /\ refresh_token' = None
    /\ instance_id' = None
    /\ expires_at' = 0
    /\ call' = [c \in Callers |-> NoCall]
    /\ UNCHANGED <<now, ticks, disk, stored, issued>>
    /\ UNCHANGED <<chanVars, evVars>>

NextAuthSeq ==
    \/ \E c \in Callers, op \in Ops, d \in Dirs \cup {NoDir} : CallSeq(c, op, d)
    \/ \E sd \in {NoDir, "A"} : Construct(sd)
    \/ \E dt \in TickSteps : Tick(dt)
    \/ \E c \in Callers : TokenExpiredRead(c)
    \/ \E c \in Callers : HeadersCheck(c)
    \/ \E c \in Callers : HeadersReturn(c)
    \/ \E c \in Callers : TokenFactoryCheck(c)
    \/ \E c \in Callers : TokenFactoryReturn(c)
    \/ \E c \in Callers : LoopTokenCheck(c)
    \/ \E c \in Callers : ResumeLoad(c)
    \/ \E c \in Callers : ResumeCheck(c)
    \/ \E c \in Callers : RefreshSend(c)
    \/ \E c \in Callers : RefreshRecv(c)
    \/ \E c \in Callers : ConfirmSend(c)
    \/ \E c \in Callers : ConfirmRecv(c)
    \/ \E c \in Callers : OtpSend(c)
    \/ \E c \in Callers : OtpFirstAnswer(c)
    \/ \E c \in Callers : OtpCooldown(c)
    \/ \E c \in Callers : OtpSecondAnswer(c)

\* The operations of one HermesAuth called one after the other, in any
\* order: no call starts before the previous one has ended.
SpecAuthSeq == InitAuth /\ [][NextAuthSeq]_vars

\* ----- _store_credentials statement by statement ---------------------------

\* refresh_hermes_token(): the answer of Registration/App/Refresh arrives;
\* a valid one, numbered issued + 1, is handed to _store_credentials
\*                                                          (auth.py:266-270)
RefreshRecvAnswer(c) ==
    /\ call[c].op # "confirm_otp"
    /\ call[c].pc = "inflight"
    /\ \/ /\ \E e \in RequestFailures :
                call' = [call EXCEPT ![c] = Ended(c, "raised", e)]
          /\ UNCHANGED issued
       \/ /\ issued < MaxIssued
          /\ issued' = issued + 1
          /\ \E expiresIn \in ExpiresIns :
                call' = [call EXCEPT ![c].pc = "store1", ![c].resp = issued + 1,
                                     ![c].expin = expiresIn]
    /\ UNCHANGED <<now, ticks, session_dir, credVars, disk, stored, authCalls>>
    /\ UNCHANGED <<chanVars, evVars>>

\* _store_credentials: self.access_token = ..., self.refresh_token = ...,
\* self.instance_id = ..., self.expires_at = time.time() + expiresIn, one
\* attribute assignment per step                             (auth.py:279-282)
StoreField(c) ==
    /\ call[c].pc \in {"store1", "store2", "store3", "store4"}
    /\ access_token' = IF call[c].pc = "store1" THEN call[c].resp ELSE access_token
    /\ refresh_token' = IF call[c].pc = "store2" THEN call[c].resp ELSE refresh_token
    /\ instance_id' = IF call[c].pc = "store3" THEN call[c].resp ELSE instance_id
    /\ expires_at' = IF call[c].pc = "store4" THEN now + call[c].expin ELSE expires_at
    /\ call' = [call EXCEPT ![c] =
                    CASE call[c].pc = "store1" -> [call[c] EXCEPT !.pc = "store2"]
                      [] call[c].pc = "store2" -> [call[c] EXCEPT !.pc = "store3"]
                      [] call[c].pc = "store3" -> [call[c] EXCEPT !.pc = "store4"]
                      [] OTHER ->
                            IF session_dir # NoDir THEN [call[c] EXCEPT !.pc = "dump"]
                            ELSE [AfterRefresh(c) EXCEPT !.resp = None, !.expin = 0]]
    /\ UNCHANGED <<now, ticks, session_dir, disk, stored, issued, authCalls>>
    /\ UNCHANGED <<chanVars, evVars>>

\* _store_credentials: the file is written from the four attributes as
\* they are now                                              (auth.py:284-297)
StoreDump(c) ==
    /\ call[c].pc = "dump"
    /\ disk' = [disk EXCEPT ![session_dir] =
                   DumpCredentials(access_token, refresh_token, instance_id, expires_at)]
    /\ stored' = [stored EXCEPT ![session_dir] = InMemory]
    /\ call' = [call EXCEPT ![c] = [AfterRefresh(c) EXCEPT !.resp = None, !.expin = 0]]
    /\ UNCHANGED <<now, ticks, session_dir, credVars, issued, authCalls>>
    /\ UNCHANGED <<chanVars, evVars>>

\* A HermesAuth whose credential, stored by an earlier confirm_otp(), has
\* expired; with a session directory the file holds that credential.
InitStore ==
    /\ ChannelConstructed
    /\ DispatchConstructed
    /\ now = StartNow
    /\ ticks = 0
    /\ session_dir \in {NoDir, "A"}
    /\ access_token = OldToken
    /\ refresh_token = OldToken
    /\ instance_id = OldToken
    /\ expires_at = StartNow - 100
    /\ disk = [d \in Dirs |-> IF d = session_dir
                               THEN SavedFile(OldToken, StartNow - 100) ELSE NoFile]
    /\ stored = [d \in Dirs |-> NoFile]
    /\ issued = 0
    /\ authCalls = 0
    /\ call = [c \in Callers |-> NoCall]

NextStore ==
    \/ \E c \in Callers, op \in {"headers", "token_factory", "loop"} : Call(c, op, NoDir)
    \/ \E c \in Callers : HeadersCheck(c)
    \/ \E c \in Callers : HeadersReturn(c)
    \/ \E c \in Callers : TokenFactoryCheck(c)
    \/ \E c \in Callers : TokenFactoryReturn(c)
    \/ \E c \in Callers : LoopTokenCheck(c)
    \/ \E c \in Callers : RefreshSend(c)
    \/ \E c \in Callers : RefreshRecvAnswer(c)
    \/ \E c \in Callers : StoreField(c)
    \/ \E c \in Callers : StoreDump(c)

\* A REST call through headers() on the application's thread racing with
\* the hub's token_factory or the token check of the rebuild loop on the
\* channel's thread, every attribute assignment of _store_credentials
\* being a step of its own.
SpecStore == InitStore /\ [][NextStore]_vars

\* A HermesAuth that holds no credential yet or the one of an earlier
\* confirm_otp(), on a disk whose credential files are those of earlier
\* runs: complete (expired or not) or lacking a key.
InitResume ==
    /\ ChannelConstructed
    /\ DispatchConstructed
    /\ now = StartNow
    /\ ticks = 0
    /\ session_dir \in {NoDir, "A"}
    /\ \E k \in {None, 1} :
          /\ access_token = k
          /\ refresh_token = k
          /\ instance_id = k
          /\ expires_at = IF k = None THEN 0 ELSE StartNow + 3600
    /\ disk \in [Dirs -> {NoFile}
                         \cup {SavedFile(OldToken, e) : e \in SavedExpiries}
                         \cup {LackingKey(OldToken, StartNow + 3600, key) :
                                  key \in {"access_token", "refresh_token", "expires_at"}}]
    /\ stored = [d \in Dirs |-> NoFile]
    /\ issued = IF access_token = None THEN 0 ELSE 1
    /\ authCalls = 0
    /\ call = [c \in Callers |-> NoCall]

NextResume ==
    \/ \E d \in Dirs \cup {NoDir} : CallSeq("app", "resume", d)
    \/ \E dt \in TickSteps : Tick(dt)
    \/ ResumeLoad("app")
    \/ ResumeCheck("app")
    \/ RefreshSend("app")
    \/ RefreshRecv("app")

\* resume() called on one HermesAuth, once or several times, from any of
\* the directories.
SpecResume == InitResume /\ [][NextResume]_vars

\* ----- event dispatch: the operations --------------------------------------

\* An on_message that stores its handler in the status-update slot.
RegisterWrongSlot(k, hd) ==
    /\ callerpc = "idle"
    /\ regs < MaxRegs
    /\ regs' = regs + 1
    /\ slots' = [slots EXCEPT ![IF k = "_on_message" THEN "_on_status_update" ELSE k] = hd]
    /\ registered' = [registered EXCEPT ![k] = hd]
    /\ regLive' = (hub # NoHub /\ hubState[hub] = "live")
    /\ UNCHANGED <<wiring, events, dropped, invocation, acks, last>>
    /\ UNCHANGED <<chanVars, authVars>>

\* on_message(handler) .. on_error(handler): the slot of that event kind is
\* assigned                                               (signalr.py:73-106)
Register(k, hd) ==
    /\ callerpc = "idle"
    /\ regs < MaxRegs
    /\ regs' = regs + 1
    /\ slots' = [slots EXCEPT ![k] = hd]
    /\ registered' = [registered EXCEPT ![k] = hd]
    /\ regLive' = (hub # NoHub /\ hubState[hub] = "live")
    /\ UNCHANGED <<wiring, events, dropped, invocation, acks, last>>
    /\ UNCHANGED <<chanVars, authVars>>

\* What running callback meth on args does: the _handle_* methods decode
\* the payload and call the handler of their slot inside try/except
\* Exception, _on_hub_open and _handle_error call theirs unguarded.  outcome
\* is what the application's handler does when it is called.
\*                                          (signalr.py:177-180 and 295-355)
\* (raised: the handler was called and raised; escaped: the exception left
\* the callback; afterRaise: the event of the delivery before this one if
\* its handler raised.)
Guarded(meth) == meth \notin {"_on_hub_open", "_handle_error"}
\* A channel none of whose callbacks wraps the handler call in a try.
RunUnguarded(h, m, meth, args, outcome) ==
    LET d == Decode(meth, args)
        hd == slots[SlotOf(meth)]
        called == d.ok /\ hd # NoHandler
    IN [hub |-> h, event |-> m, args |-> args, ran |-> meth, ok |-> d.ok,
        invoked |-> IF called THEN hd ELSE NoHandler,
        times |-> IF called THEN 1 ELSE 0,
        arg |-> IF called THEN d.value ELSE NoValue,
        raised |-> called /\ outcome = "raises",
        escaped |-> called /\ outcome = "raises",
        afterRaise |-> IF last.raised THEN last.event ELSE "none"]
Run(h, m, meth, args, outcome) ==
    LET d == Decode(meth, args)
        hd == slots[SlotOf(meth)]
        called == d.ok /\ hd # NoHandler
    IN [hub |-> h, event |-> m, args |-> args, ran |-> meth, ok |-> d.ok,
        invoked |-> IF called THEN hd ELSE NoHandler,
        times |-> IF called THEN 1 ELSE 0,
        arg |-> IF called THEN d.value ELSE NoValue,
        raised |-> called /\ outcome = "raises",
        escaped |-> called /\ outcome = "raises" /\ ~Guarded(meth),
        afterRaise |-> IF last.raised THEN last.event ELSE "none"]

\* A mark_as_delivered that sends its arguments in the order it got them.
mark_as_deliveredInOrder(message_id, conversation_id, n) ==
    [hub |-> hub, method |-> "MarkAsDelivered",
     args |-> <<StrOfUuid(message_id), StrOfUuid(conversation_id)>>,
     callback |-> NoHandler, delivery |-> n]

\* mark_as_delivered(message_id, conversation_id): self._hub.send(
\* "MarkAsDelivered", [str(conversation_id), str(message_id)], None); n is
\* the number of the delivery it is made in             (signalr.py:249-260)
mark_as_delivered(message_id, conversation_id, n) ==
    [hub |-> hub, method |-> "MarkAsDelivered",
     args |-> <<StrOfUuid(conversation_id), StrOfUuid(message_id)>>,
     callback |-> NoHandler, delivery |-> n]

\* listen's on_msg(msg): the message is printed, then
\* sr.mark_as_delivered(msg.messageId, msg.conversationId) is the last
\* statement; a handler that raises does so while printing
\*                                                       (main.py:870-936)
on_msg(msg, n, outcome) ==
    IF outcome = "returns"
    THEN <<mark_as_delivered(msg.ids.messageId, msg.ids.conversationId, n)>>
    ELSE <<>>

\* The transport thread of hub h delivers a server event, or the open or
\* error callback, to the callback registered on that hub object; the
\* callback, and the handler it calls, run to their end on that thread.
Deliver(h, m, args, outcome) ==
    /\ hubState[h] = "live"
    /\ wiring[h][m] # "none"
    /\ events < MaxEvents
    /\ events' = events + 1
    /\ last' = Run(h, m, wiring[h][m], args, outcome)
    /\ dropped' = IF last'.ok THEN dropped ELSE dropped + 1
    /\ acks' = IF last'.invoked = "on_msg"
               THEN acks \o on_msg(last'.arg, events', outcome)
               ELSE acks
    /\ UNCHANGED <<slots, registered, regLive, wiring, regs, invocation>>
    /\ UNCHANGED <<chanVars, authVars>>

\* query_network_properties(callback): hub.send with _on_result if there
\* is a callback, else with None                          (signalr.py:275-291)
QueryNetworkProperties(cb) ==
    /\ callerpc = "idle"
    /\ hub # NoHub
    /\ hubState[hub] = "live"
    /\ invocation' = [method |-> "NetworkProperties", args |-> <<>>,
                      on_result |-> IF cb # NoHandler THEN "_on_result" ELSE "none",
                      callback |-> cb]
    /\ invocation' # invocation
    /\ UNCHANGED <<slots, registered, regLive, wiring, regs, events, dropped, acks, last>>
    /\ UNCHANGED <<chanVars, authVars>>

\* An _on_result that validates outside any try.
OnResultUnguarded(raw, outcome) ==
    LET d == ValidateOptional("NetworkPropertiesResponse", raw)
    IN [hub |-> hub, event |-> "NetworkProperties", args |-> raw, ran |-> "_on_result",
        ok |-> d.ok,
        invoked |-> IF d.ok THEN invocation.callback ELSE NoHandler,
        times |-> IF d.ok THEN 1 ELSE 0,
        arg |-> IF d.ok THEN d.value ELSE NoValue,
        raised |-> d.ok /\ invocation.callback # NoHandler /\ outcome = "raises",
        escaped |-> ~d.ok,
        afterRaise |-> IF last.raised THEN last.event ELSE "none"]

\* _on_result(raw): NetworkPropertiesResponse.model_validate(raw) and the
\* call of the callback, inside try/except Exception      (signalr.py:284-290)
OnResult(raw, outcome) ==
    LET d == ValidateOptional("NetworkPropertiesResponse", raw)
    IN [hub |-> hub, event |-> "NetworkProperties", args |-> raw, ran |-> "_on_result",
        ok |-> d.ok,
        invoked |-> IF d.ok THEN invocation.callback ELSE NoHandler,
        times |-> IF d.ok THEN 1 ELSE 0,
        arg |-> IF d.ok THEN d.value ELSE NoValue,
        raised |-> d.ok /\ invocation.callback # NoHandler /\ outcome = "raises",
        escaped |-> FALSE,
        afterRaise |-> IF last.raised THEN last.event ELSE "none"]

\* The completion of the NetworkProperties invocation arrives: the
\* transport calls the result callback it was given, if any.
ResultArrives(raw, outcome) ==
    /\ invocation.method = "NetworkProperties"
    /\ events < MaxEvents
    /\ events' = events + 1
    /\ last' = IF invocation.on_result = "_on_result"
               THEN OnResult(raw, outcome)
               ELSE [NoDelivery EXCEPT !.hub = hub, !.event = "NetworkProperties",
                                       !.args = raw, !.ok = TRUE,
                                       !.afterRaise = IF last.raised THEN last.event ELSE "none"]
    /\ dropped' = IF last'.ok THEN dropped ELSE dropped + 1
    /\ invocation' = NoInvocation
    /\ UNCHANGED <<slots, registered, regLive, wiring, regs, acks>>
    /\ UNCHANGED <<chanVars, authVars>>

\* A payload of each event that decodes.
WellFormed(m) ==
    CASE m = "ReceiveMessage" ->
            MsgObj({"messageId", "conversationId", "messageBody"},
                   <<"A", "1">>, <<"C", "3">>)
      [] m = "ReceiveMessageUpdate" -> StatusObj({"messageId", "status"}, "Delivered", "")
      [] m = "ReceiveConversationMuteStatusUpdate" ->
            ObjTrue({"conversationId", "isMuted"}, {"isMuted"})
      [] m = "ReceiveUserBlockStatusUpdate" -> ObjTrue({"userId", "isBlocked"}, {"isBlocked"})
      [] m = "ReceiveServerNotification" -> Obj({"notificationType", "message"})
      [] m = "ReceiveNonconversationalMessage" -> StrArg(<<"A", "7">>)
      [] m = "open" -> NoArgs
      [] m = "error" -> StrArg(<<"A", "7">>)

\* A constructed channel on which the application registered either
\* nothing yet or handler h1 for every event.
InitRegister ==
    /\ ChannelConstructed
    /\ AuthConstructed
    /\ slots \in {[k \in Slots |-> NoHandler], [k \in Slots |-> "h1"]}
    /\ registered = slots
    /\ regLive = FALSE
    /\ wiring = [h \in Hubs |-> NoWiring]
    /\ regs = 0
    /\ events = 0
    /\ dropped = 0
    /\ invocation = NoInvocation
    /\ acks = <<>>
    /\ last = NoDelivery

NextRegister ==
    \/ \E k \in Slots, hd \in HandlerIds : Register(k, hd)
    \/ \E hd \in Handlers : RegisterOnClose(hd)
    \/ StartBegin
    \/ StartBuild
    \/ StartOpen
    \/ StopBegin
    \/ StopHub
    \/ \E h \in Hubs, m \in HubEvents \ {"close"} : Deliver(h, m, WellFormed(m), "returns")

\* The application registers handlers before and after start() and stop(),
\* while the transport delivers well-formed events on the connections that
\* are open.  The connections are not lost here: drops, close callbacks and
\* the rebuild loop are those of Spec.
SpecRegister == InitRegister /\ [][NextRegister]_vars

\* A started channel (its hub built and opened by start()) on which the
\* application registered handler h1 for every event.
InitRewire ==
    /\ ChannelStarted
    /\ AuthConstructed
    /\ slots = [k \in Slots |-> "h1"]
    /\ registered = slots
    /\ regLive = FALSE

NextRewire ==
    \/ \E h \in Hubs : Drop(h)
    \/ \E h \in Hubs : CallbackStep(h)
    \/ \E t \in Threads : LoopStep(t, MaxRaceFails)
    \/ \E h \in Hubs, m \in HubEvents \ {"close"} : Deliver(h, m, WellFormed(m), "returns")

\* A started channel whose connections are lost and rebuilt by the
\* reconnect loop, while the transport delivers well-formed events on the
\* connections that are open; stop() is not called.
SpecRewire == InitRewire /\ [][NextRewire]_vars

\* A started channel on which the application registered either nothing
\* or handler h1 for every event.
InitDispatch ==
    /\ ChannelStarted
    /\ AuthConstructed
    /\ slots \in {[k \in Slots |-> NoHandler], [k \in Slots |-> "h1"]}
    /\ registered = slots
    /\ regLive = FALSE

NextDispatch ==
    \/ \E h \in Hubs, m \in HubEvents \ {"close"}, outcome \in HandlerOutcomes :
          \E args \in Payloads(m) : Deliver(h, m, args, outcome)
    \/ \E cb \in HandlerIds \cup {NoHandler} : QueryNetworkProperties(cb)
    \/ \E raw \in Results, outcome \in HandlerOutcomes : ResultArrives(raw, outcome)

\* The transport delivers events of every shape, and the results of
\* NetworkProperties invocations, on the open connection of a started
\* channel.
SpecDispatch == InitDispatch /\ [][NextDispatch]_vars

\* The handlers the listen command registers before it starts the channel:
\* on_msg, on_status, on_nonconv, and lambdas that print for open and
\* error (the lambda it registers for close prints and returns, which is
\* what the close callback does without a handler)      (main.py:972-977)
ListenSlots ==
    [k \in Slots |->
        CASE k = "_on_message" -> "on_msg"
          [] k = "_on_status_update" -> "on_status"
          [] k = "_on_nonconversational_message" -> "on_nonconv"
          [] k \in {"_on_open", "_on_error"} -> "lambda"
          [] OTHER -> NoHandler]

\* listen after sr.start() returned.
InitListen ==
    /\ ChannelStarted
    /\ AuthConstructed
    /\ slots = ListenSlots
    /\ registered = slots
    /\ regLive = FALSE

NextListen ==
    \/ \E h \in Hubs : Drop(h)
    \/ \E h \in Hubs : CallbackStep(h)
    \/ \E t \in Threads : LoopStep(t, MaxRaceFails)
    \/ \E h \in Hubs, m \in HubEvents \ {"close"} :
          \E args \in Payloads(m) : Deliver(h, m, args, "returns")

\* The listen command: the channel is started once, its connections are
\* lost and rebuilt, the transport delivers events of every shape on the
\* connections that are open, and the handlers print what they are given
\* (standard output accepts what is printed).
SpecListen == InitListen /\ [][NextListen]_vars

\* ----- properties ---------------------------------------------------------

RECURSIVE Pow2(_)
Pow2(n) == IF n = 0 THEN 1 ELSE 2 * Pow2(n - 1)

IsSleep(e) == e.ev = "sleep"
IsOutcome(e) == e.ev \in {"token_fail", "rebuild_fail", "ok"}
Sleeps(t) == SelectSeq(thr[t].hist, IsSleep)
Outcomes(t) == SelectSeq(thr[t].hist, IsOutcome)
LastEv(h) == IF Len(h) = 0 THEN "nothing" ELSE h[Len(h)].ev
AliveLoops == {t \in Threads : is_alive(t)}
LiveHubs == {h \in Hubs : hubState[h] = "live"}
StopReturned == callerpc = "idle" /\ lastOp = "stop"

\* C1: at most one _full_reconnect_loop thread is running at any time,
\* whatever the interleaving of the hubs' close callbacks.
C1_AtMostOneLoop == Cardinality(AliveLoops) <= 1

\* C2: every close callback schedules a rebuild (calls
\* _schedule_full_reconnect) if and only if the stopped flag is false when it
\* runs; the step is the whole of lines 182-189, handler call included.
C2_CloseSchedulesIffNotStopped ==
    [][\A h \in Hubs :
          (closePending[h] # "none" /\ closePending'[h] = "none")
          => (cbpc'[h] = "sched_check" <=> ~stopped)]_vars

\* C3: a loop that was sleeping when stop() was called exits when it wakes:
\* it does not go on to the token check, the teardown or the rebuild.
C3_StopDuringSleepExits ==
    [][\A t \in Threads :
          (thr[t].pc = "sleeping" /\ thr[t].stopSeen /\ thr'[t].pc # "sleeping")
          => thr'[t].pc \in {"done", "unused"}]_vars

\* C4: once stop() has returned and start() is not called again, no hub is
\* built (no loop thread completes _build_hub) and no hub is opened.
C4_ClosedStaysClosed ==
    [][(StopReturned /\ StopReturned')
       => /\ \A t \in Threads : ~(thr[t].pc = "build" /\ thr'[t].pc = "open")
          /\ \A h \in Hubs : hubState'[h] = "live" => hubState[h] = "live"]_vars

\* C5: a loop thread ends only after a success or with the stopped flag set,
\* and after an unexpected close the channel has an open connection again
\* unless stop() is called.
C5_Recovers ==
    /\ [][\A t \in Threads :
             (is_alive(t) /\ ~is_alive(t)') => (stopped \/ thr[t].pc = "returning")]_vars
    /\ \A h \in Hubs :
          (closePending[h] = "drop" /\ ~stopped)
             ~> (stopped \/ (hub # NoHub /\ hubState[hub] = "live"))

\* C6: the k-th sleep of a loop instance lasts min(5 * 2^(k-1), 120)
\* seconds, so the first lasts 5; the delay never decreases and never
\* exceeds 120.
C6_Backoff ==
    \A t \in Threads :
       /\ \A k \in 1..Len(Sleeps(t)) :
             /\ Sleeps(t)[k].d = Min(5 * Pow2(k - 1), 120)
             /\ k > 1 => Sleeps(t)[k].d >= Sleeps(t)[k - 1].d
       /\ thr[t].delay <= 120
       /\ is_alive(t) => thr[t].delay = Min(5 * Pow2(Len(Outcomes(t))), 120)
                         \/ LastEv(thr[t].hist) = "ok"

C6_Witness ==
    \E t \in Threads :
       /\ Len(Sleeps(t)) = 7
       /\ Sleeps(t)[5].d = 80
       /\ Sleeps(t)[6].d = 120
       /\ Sleeps(t)[7].d = 120

\* C7: two failed rebuilds followed by a successful one are exactly three
\* rebuild attempts, each right after one sleep, the second sleep twice the
\* first, and the loop returns after the success.
C7_TwoFailuresThenSuccess ==
    \A t \in Threads :
       Outcomes(t) = <<Ev("rebuild_fail", 0), Ev("rebuild_fail", 0), Ev("ok", 0)>>
       => /\ Len(thr[t].hist) = 9
          /\ \A i \in 0..2 : /\ thr[t].hist[3 * i + 1].ev = "sleep"
                             /\ thr[t].hist[3 * i + 2].ev = "attempt"
          /\ thr[t].hist[4].d = 2 * thr[t].hist[1].d
          /\ thr[t].pc \in {"returning", "done"}

C7_Witness ==
    \E t \in Threads :
       /\ Outcomes(t) = <<Ev("rebuild_fail", 0), Ev("rebuild_fail", 0), Ev("ok", 0)>>
       /\ thr[t].pc = "done"

\* C8: an iteration whose token refresh raises touches no hub (the last
\* thing the loop did was sleep, and the step changes no hub), doubles the
\* delay up to 120 and goes back to the loop condition.
C8_TokenFailureRetries ==
    [][\A t \in Threads :
          (thr[t].pc = "token" /\ LastEv(thr'[t].hist) = "token_fail")
          => /\ thr'[t].pc = "while"
             /\ thr'[t].delay = Min(2 * thr[t].delay, 120)
             /\ LastEv(thr[t].hist) = "sleep"
             /\ thr'[t].hist = Append(thr[t].hist, Ev("token_fail", 0))
             /\ hub' = hub
             /\ hubState' = hubState
             /\ closePending' = closePending]_vars

C8_Witness ==
    \E t \in Threads :
       /\ thr[t].pc = "while"
       /\ LastEv(thr[t].hist) = "token_fail"
       /\ thr[t].delay = 120

\* C9: at most one hub built by the channel is open at any time.
C9_OneLiveHub == Cardinality(LiveHubs) <= 1

\* C10: when stop() returns it returned normally and the stopped flag is
\* set, and the close callback of a hub that stop() closed never calls
\* _schedule_full_reconnect.
C10_StopNeverReschedules ==
    [][/\ StopReturned' => (stopped' /\ callerResult' = "returned")
       /\ \A h \in Hubs :
             (closePending[h] = "stop" /\ closePending'[h] = "none")
             => cbpc'[h] = "idle"]_vars

\* ----- properties of the token lifecycle (HermesAuth) ---------------------

\* The call of thread c ends in this step.
Ends(c) == call[c].pc \notin {"idle", "done"} /\ call'[c].pc = "done"

\* The request thread c waits for is answered by a failure in this step.
FailedAnswer(c) == call[c].pc = "inflight" /\ call'[c] # call[c] /\ issued' = issued

\* refresh_hermes_token() refuses to send in this step (no refresh token or id).
Refused(c) == call[c].pc = "refresh" /\ call'[c].pc = "done"

\* C11: the token-provider callback (token_factory) calls
\* refresh_hermes_token() once when it read the token as expired and not at
\* all otherwise; when it returns it returns the access token the manager
\* holds at that moment; when the refresh raises (refused, or the request
\* failed) the call ends raising that exception and returns no token.
C11_TokenFactory ==
    [][\A c \in Callers :
         call[c].op = "token_factory" =>
            /\ Ends(c) =>
                  /\ call'[c].refreshes = (IF call'[c].expired THEN 1 ELSE 0)
                  /\ call'[c].result = "returned" => call'[c].tok = access_token
                  /\ call'[c].result = "raised" => call'[c].tok = None
            /\ FailedAnswer(c) =>
                  /\ Ends(c)
                  /\ call'[c].result = "raised"
                  /\ call'[c].err \in RequestFailures
            /\ Refused(c) =>
                  /\ call'[c].result = "raised"
                  /\ call'[c].err = NoRefreshToken]_vars

\* A token_factory call found the token expired, refreshed it once and
\* returned the new access token.
C11_Witness ==
    \E c \in Callers :
       /\ call[c].op = "token_factory"
       /\ call[c].pc = "done"
       /\ call[c].result = "returned"
       /\ call[c].expired
       /\ call[c].refreshes = 1
       /\ call[c].sent = 1
       /\ call[c].tok = access_token
       /\ ~Falsy(call[c].tok)

\* The threads whose request to Registration/App/Refresh is in flight.
RefreshInFlight == {c \in Callers : call[c].pc = "inflight" /\ call[c].op # "confirm_otp"}

\* C12: at most one refresh request of the HermesAuth is in flight at any
\* time (a second caller that finds the token expired sends no request of
\* its own).
C12_OneRefreshInFlight == Cardinality(RefreshInFlight) <= 1

\* The operations that hand a token to a REST call or to a hub connect.
TokenPaths == {"headers", "token_factory", "loop"}

\* C13 as stated: only headers() decides whether the token is still good
\* and triggers a refresh; the hub's token_factory and the rebuild loop never
\* read token_expired or call refresh_hermes_token() themselves.
C13_OnlyHeadersDecides ==
    \A c \in Callers :
       call[c].op \in {"token_factory", "loop"} =>
          ~call[c].decided /\ call[c].refreshes = 0

\* C13 amended: REST calls go through headers(); token_factory and the
\* rebuild loop decide themselves, but with the one predicate token_expired
\* and the one refresh_hermes_token(): in every state each of the three
\* paths refreshes exactly when token_expired holds there, and the token
\* token_factory returns is the one headers() would put after "Bearer ".
C13_OneExpiryPredicate ==
    [][\A c \in Callers :
         call[c].op \in TokenPaths =>
            /\ (call[c].pc = "check" /\ call'[c].pc # "check") =>
                  /\ call'[c].decided
                  /\ (call'[c].pc = "refresh") = token_expired
                  /\ call'[c].expired = token_expired
            /\ (Ends(c) /\ call'[c].result = "returned" /\ call[c].op = "token_factory") =>
                  Bearer(call'[c].tok) = Bearer(access_token)
            /\ (Ends(c) /\ call'[c].result = "returned" /\ call[c].op = "headers") =>
                  call'[c].hdr = Bearer(access_token)]_vars

\* The rebuild loop found the token expired by token_expired although the
\* clock has not reached expires_at yet (inside the 60 s buffer), and
\* refreshed it.
C13_Witness ==
    \E c \in Callers :
       /\ call[c].op = "loop"
       /\ call[c].pc = "done"
       /\ call[c].result = "returned"
       /\ call[c].decided
       /\ call[c].expired
       /\ call[c].refreshes = 1

\* Thread c reads the token_expired property in this step.
ReadsTokenExpired(c) == call[c].op = "token_expired" /\ Ends(c)

\* C14 as stated: for every credential state and every time, token_expired
\* is true exactly when now >= expires_at - 60.
C14_ExpiredIffPastBuffer ==
    [][\A c \in Callers :
         ReadsTokenExpired(c) => call'[c].flag = (now >= expires_at - 60)]_vars

\* C14 amended: token_expired is true exactly when there is no access token
\* (None or "") or now >= expires_at - 60; with an access token,
\* now = expires_at - 61 gives false and now = expires_at - 60 gives true.
C14_ExpiredIffNoTokenOrPastBuffer ==
    [][\A c \in Callers :
         ReadsTokenExpired(c) =>
            /\ call'[c].flag = (Falsy(access_token) \/ now >= expires_at - 60)
            /\ (~Falsy(access_token) /\ now = expires_at - 61) => ~call'[c].flag
            /\ (~Falsy(access_token) /\ now = expires_at - 60) => call'[c].flag]_vars

\* token_expired was read as true with an access token present, at the
\* first instant of the buffer: now = expires_at - 60.
C14_Witness ==
    \E c \in Callers :
       /\ call[c].op = "token_expired"
       /\ call[c].pc = "done"
       /\ call[c].flag
       /\ ~Falsy(access_token)
       /\ now = expires_at - 60

\* Thread c takes a step of its call in this step.
Steps(c) == call'[c] # call[c]

\* The request thread c waits for is answered by a new credential in this step.
GoodAnswer(c) == call[c].pc = "inflight" /\ Steps(c) /\ issued' = issued + 1

\* C15: headers() returns Authorization "Bearer " + the access token the
\* manager holds at the return and Api-Version "2.0".  When it read the
\* token as expired it made exactly one refresh call first, a normal return
\* means that refresh sent one request and its answer replaced the access
\* token; when it read the token as not expired it sent nothing and none of
\* its steps changed the credential, the file or the directory.
C15_Headers ==
    [][\A c \in Callers :
         call[c].op = "headers" =>
            /\ (Ends(c) /\ call'[c].result = "returned") =>
                  /\ call'[c].hdr.Authorization = <<"Bearer ", access_token>>
                  /\ call'[c].hdr.ApiVersion = "2.0"
                  /\ call'[c].sent = (IF call'[c].expired THEN 1 ELSE 0)
            /\ Ends(c) =>
                  /\ call'[c].decided
                  /\ call'[c].refreshes = (IF call'[c].expired THEN 1 ELSE 0)
                  /\ call'[c].sent <= call'[c].refreshes
            /\ GoodAnswer(c) =>
                  /\ access_token' \in {issued', EmptyStr}
                  /\ call'[c].pc = "ret"
            /\ (Steps(c) /\ call[c].decided /\ ~call[c].expired) =>
                  /\ UNCHANGED <<credVars, disk, session_dir, issued>>
                  /\ call[c].sent = 0
            /\ (call[c].pc = "check" /\ Steps(c)) =>
                  UNCHANGED <<credVars, disk, session_dir, issued>>]_vars

\* headers() found the token expired, refreshed it with one request and
\* returned the new token in the Authorization header.
C15_Witness ==
    \E c \in Callers :
       /\ call[c].op = "headers"
       /\ call[c].pc = "done"
       /\ call[c].result = "returned"
       /\ call[c].expired
       /\ call[c].refreshes = 1
       /\ call[c].sent = 1
       /\ call[c].hdr = Bearer(access_token)
       /\ access_token = issued

\* No other thread has called into the HermesAuth.
Alone(c) == \A c2 \in Callers \ {c} : call[c2].pc = "idle" /\ call'[c2].pc = "idle"

\* C16: resume() on a directory whose credential file is not expired: the
\* load step makes the four in-memory fields equal to the file's and leaves
\* every file as it is; the call then returns having called no refresh and
\* sent no request, without touching memory or disk again; so with no other
\* thread interfering the in-memory credential equals the file when resume()
\* returns.
C16_ResumeUnexpired ==
    [][\A c \in Callers :
         call[c].op = "resume" =>
            /\ (call[c].pc = "load" /\ call'[c].pc = "check") =>
                  /\ InMemory' = disk[ResumeDir(c)]
                  /\ disk' = disk
            /\ (call[c].pc = "check" /\ Ends(c)) =>
                  /\ ~token_expired
                  /\ call'[c].result = "returned"
                  /\ call'[c].refreshes = 0
                  /\ call'[c].sent = 0
                  /\ UNCHANGED <<credVars, disk, issued>>
                  /\ Alone(c) => InMemory' = disk'[ResumeDir(c)]
            /\ (call[c].pc = "check" /\ Steps(c) /\ ~token_expired) => Ends(c)]_vars

\* resume(session_dir="B") on an HermesAuth loaded the unexpired file of B
\* and returned without a request; memory equals the file.
C16_Witness ==
    \E c \in Callers :
       /\ call[c].op = "resume"
       /\ call[c].d = "B"
       /\ call[c].pc = "done"
       /\ call[c].result = "returned"
       /\ call[c].decided
       /\ ~call[c].expired
       /\ call[c].sent = 0
       /\ disk["B"].exists
       /\ InMemory = disk["B"]
       /\ expires_at = StartNow + 3600

\* C17: when the refresh made by resume() for an expired file succeeds, the
\* call has made one refresh call with one request, and the file in the
\* directory resume() loaded from (the session_dir argument, else the
\* constructor's directory) holds the refreshed credential.
C17_ResumeExpiredPersists ==
    [][\A c \in Callers :
         (call[c].op = "resume" /\ GoodAnswer(c)) =>
            /\ call'[c].refreshes = 1
            /\ call'[c].sent = 1
            /\ disk'[ResumeDir(c)] = InMemory']_vars

\* resume() of thread c finds no credential file: no directory at all, or
\* no hermes_credentials.json in it.
NothingSaved(c) == ResumeDir(c) = NoDir \/ ~disk[ResumeDir(c)].exists

\* C18: resume() without an on-disk credential ends at once raising the
\* "No saved credentials" error, has called no refresh and sent no request,
\* and leaves the four in-memory fields (and the disk) as they were.
C18_ResumeNothingSaved ==
    [][\A c \in Callers :
         (call[c].op = "resume" /\ call[c].pc = "load" /\ Steps(c) /\ NothingSaved(c)) =>
            /\ Ends(c)
            /\ call'[c].result = "raised"
            /\ call'[c].err = NoSavedCredentials
            /\ call'[c].refreshes = 0
            /\ call'[c].sent = 0
            /\ UNCHANGED <<credVars, disk, issued>>]_vars

\* An HermesAuth without session directory that holds a credential (from
\* confirm_otp) called resume() and got the "No saved credentials" error.
C18_Witness ==
    \E c \in Callers :
       /\ call[c].op = "resume"
       /\ call[c].pc = "done"
       /\ call[c].result = "raised"
       /\ call[c].err = NoSavedCredentials
       /\ call[c].sent = 0
       /\ NothingSaved(c)
       /\ ~Falsy(access_token)

\* Thread c is inside refresh_hermes_token(), called directly or by
\* headers(), token_factory, the rebuild loop or resume().
InRefresh(c) == call[c].pc \in {"refresh", "inflight"} /\ call[c].op # "confirm_otp"

\* The four in-memory fields after this step are those of the answer
\* numbered issued' (its accessToken may be the empty string).
HoldsNewAnswer ==
    /\ access_token' \in {issued', EmptyStr}
    /\ refresh_token' = issued'
    /\ instance_id' = issued'
    /\ \E expiresIn \in ExpiresIns : expires_at' = now + expiresIn

\* refresh_hermes_token() without refresh token or instance id raises at
\* once, sends nothing and changes neither memory nor disk.
RefusedCleanly ==
    \A c \in Callers :
       (InRefresh(c) /\ call[c].pc = "refresh" /\ Steps(c)
          /\ (Falsy(refresh_token) \/ Falsy(instance_id))) =>
          /\ Ends(c)
          /\ call'[c].result = "raised"
          /\ call'[c].err = NoRefreshToken
          /\ call'[c].sent = call[c].sent
          /\ UNCHANGED <<credVars, disk, issued>>

\* C19 as stated: a refused refresh_hermes_token() changes nothing and
\* sends nothing; a successful one replaces the four fields by the answer's
\* and persists them: some credential file then equals the in-memory
\* credential.
C19_RefreshPersists ==
    [][/\ RefusedCleanly
       /\ \A c \in Callers :
             (InRefresh(c) /\ GoodAnswer(c)) =>
                /\ HoldsNewAnswer
                /\ \E d \in Dirs : disk'[d] = InMemory']_vars

\* C19 amended: as above, but the new credential is persisted to the
\* directory given to the constructor when there is one (that file then
\* equals the in-memory credential); no other file is written, and without
\* a constructor directory nothing is written at all.
C19_RefreshPersistsToSessionDir ==
    [][/\ RefusedCleanly
       /\ \A c \in Callers :
             (InRefresh(c) /\ GoodAnswer(c)) =>
                /\ HoldsNewAnswer
                /\ session_dir # NoDir => disk'[session_dir] = InMemory'
                /\ \A d \in Dirs \ {session_dir} : disk'[d] = disk[d]]_vars

\* A direct refresh_hermes_token() on an HermesAuth(session_dir="A")
\* succeeded: memory and the file of A hold the new answer.
C19_Witness ==
    \E c \in Callers :
       /\ call[c].op = "refresh_hermes_token"
       /\ call[c].pc = "done"
       /\ call[c].result = "returned"
       /\ call[c].sent = 1
       /\ session_dir = "A"
       /\ refresh_token = issued
       /\ instance_id = issued
       /\ disk["A"] = InMemory

\* C20: no call on the HermesAuth other than request_otp()
\* (refresh_hermes_token(), confirm_otp(), headers(), resume(), and the
\* channel's two paths) sends more than one request; when the request fails (network error, non-2xx answer, invalid
\* body) the call ends in that very step, raising that failure to its
\* caller, with the one request it had sent and no further one.
C20_OneRequestNoRetry ==
    [][\A c \in Callers :
         /\ call'[c].op # "request_otp" => call'[c].sent <= 1
         /\ (call[c].pc = "inflight" /\ Steps(c) /\ issued' = issued) =>
               /\ Ends(c)
               /\ call'[c].result = "raised"
               /\ call'[c].err \in RequestFailures
               /\ call'[c].sent = 1]_vars

\* A confirm_otp() whose request got a non-2xx answer ended raising
\* HTTPStatusError after its one request; nothing was stored.
C20_Witness ==
    \E c \in Callers :
       /\ call[c].op = "confirm_otp"
       /\ call[c].pc = "done"
       /\ call[c].result = "raised"
       /\ call[c].err = "HTTPStatusError"
       /\ call[c].sent = 1
       /\ access_token = None

\* C21: request_otp(): a 409 answer to the first request leads to the
\* cooldown and exactly one more request; after it a success returns an
\* OtpRequest with 2 requests sent, a second 409 raises the 409 error with
\* 2 requests sent, and no call ever sends a third; any other non-2xx
\* answer to the first request raises at once with 1 request sent.
C21_OtpRetryOnce ==
    [][\A c \in Callers :
         call[c].op = "request_otp" =>
            /\ call'[c].op = "request_otp" => call'[c].sent <= 2
            /\ (call[c].pc = "otp_wait1" /\ Steps(c) /\ call'[c].status = 409) =>
                  /\ call'[c].pc = "cooldown"
                  /\ call'[c].sent = 1
            /\ (call[c].pc = "cooldown" /\ Steps(c)) =>
                  /\ call'[c].sent = 2
                  /\ call'[c].pc = "otp_wait2"
                  /\ now' = now + 30
            /\ (call[c].pc = "otp_wait2" /\ Steps(c)) =>
                  /\ Ends(c)
                  /\ call'[c].sent = 2
                  /\ call'[c].status = 409 =>
                        call'[c].result = "raised" /\ call'[c].err = "HTTPStatusError"
                  /\ call'[c].result = "returned" =>
                        call'[c].status = 200 /\ call'[c].otp = 2
            /\ (call[c].pc = "otp_wait1" /\ Steps(c) /\ call'[c].status \notin {0, 200, 409}) =>
                  /\ Ends(c)
                  /\ call'[c].result = "raised"
                  /\ call'[c].err = "HTTPStatusError"
                  /\ call'[c].sent = 1]_vars

\* A request_otp() was answered 409 twice: it ended raising the 409 error
\* after exactly two requests, 30 seconds apart.
C21_Witness ==
    \E c \in Callers :
       /\ call[c].op = "request_otp"
       /\ call[c].pc = "done"
       /\ call[c].result = "raised"
       /\ call[c].err = "HTTPStatusError"
       /\ call[c].status = 409
       /\ call[c].sent = 2
       /\ now >= StartNow + 30

\* File f holds a whole credential of one server answer: the refresh token
\* and the instance id of the same answer, that answer's access token (which
\* may be the empty string), and an expiry.
OneAnswer(f) ==
    /\ ~Falsy(f.refresh_token)
    /\ f.instance_id = f.refresh_token
    /\ f.access_token \in {f.refresh_token, EmptyStr}
    /\ f.expires_at > 0

\* C22: after any sequence of request_otp, confirm_otp, resume, headers and
\* refresh calls, ended normally or by an error, every session directory has
\* either no credential file or a file whose four fields come from one
\* single server answer.
C22_NoPartialFile == \A d \in Dirs : disk[d].exists => OneAnswer(disk[d])

\* The file of directory A was written from the latest answer, and a later
\* call on the HermesAuth ended with a failed request.
C22_Witness ==
    /\ session_dir = "A"
    /\ issued >= 1
    /\ disk["A"].exists
    /\ disk["A"].refresh_token = issued
    /\ \E c \in Callers :
          /\ call[c].pc = "done"
          /\ call[c].result = "raised"
          /\ call[c].err \in RequestFailures
          /\ call[c].sent >= 1

\* The call of thread c returns in this step after confirm_otp() or a
\* refresh inside it replaced the credential.
ReturnsAfterStore(c) ==
    /\ Ends(c)
    /\ call'[c].result = "returned"
    /\ call'[c].op # "request_otp"
    /\ call'[c].sent = 1

C24_RoundTrip ==
    [][\A c \in Callers :
         (/\ call[c].op = "resume"
          /\ Steps(c)
          /\ ResumeDir(c) # NoDir
          /\ stored[ResumeDir(c)].exists) =>
            /\ call[c].pc = "load" =>
                  /\ call'[c].pc = "check"
                  /\ InMemory' = stored[ResumeDir(c)]
            /\ (call[c].pc = "check" /\ ~token_expired) =>
                  /\ Ends(c)
                  /\ call'[c].result = "returned"
                  /\ call'[c].sent = 0
                  /\ InMemory' = stored[ResumeDir(c)]]_vars

\* A HermesAuth with session directory A stored a credential; a HermesAuth
\* constructed afterwards without a session directory resumed from A
\* before the credential expired and holds the four fields that were stored.
C24_Witness ==
    \E c \in Callers :
       /\ session_dir = NoDir
       /\ call[c].op = "resume"
       /\ call[c].d = "A"
       /\ call[c].pc = "done"
       /\ call[c].result = "returned"
       /\ call[c].sent = 0
       /\ stored["A"].exists
       /\ InMemory = stored["A"]
       /\ access_token = issued
       /\ issued >= 1

\* ----- properties of the event dispatch ------------------------------------

\* The transport delivers an event or a result in this step.
Delivers == events' = events + 1

\* C25: an on_* call assigns the handler it was given to the slot of its own
\* event kind and changes no other slot, no field of the connection (hub,
\* hub states, wiring, pending closes, reconnect thread) and not the stopped
\* flag; on_close changes nothing but its own slot; and every event that is
\* dispatched, before or after start(), calls once the handler last given
\* for its kind (none when that is None) and changes no slot.
C25_LastRegistrationWins ==
    [][/\ regs' # regs =>
             /\ \E k \in Slots :
                   /\ registered' = [registered EXCEPT ![k] = registered'[k]]
                   /\ slots' = [slots EXCEPT ![k] = registered'[k]]
             /\ UNCHANGED <<chanVars, wiring>>
       /\ on_close' # on_close =>
             UNCHANGED <<slots, wiring, stopped, hub, hubState, closePending,
                         reconnect_thread, thr, cbpc>>
       /\ Delivers =>
             /\ last'.invoked = registered[SlotOf(last'.ran)]
             /\ last'.times = IF last'.invoked # NoHandler THEN 1 ELSE 0
             /\ UNCHANGED <<slots, registered, on_close>>]_vars

\* Handler h1 was registered for every event before start(); after start()
\* opened the connection h2 was registered for one event, and an event of
\* that kind delivered afterwards called h2, once.
C25_Witness ==
    /\ regLive
    /\ regs = 1
    /\ \E k \in Slots :
          /\ slots[k] = "h2"
          /\ \A k2 \in Slots \ {k} : slots[k2] = "h1"
          /\ last.ran # "none"
          /\ SlotOf(last.ran) = k
          /\ last.invoked = "h2"
          /\ last.times = 1

\* C26: a hub the rebuild loop builds gets the callbacks start() gives to its
\* hub; every event delivered on any hub, rebuilt or not, runs the callback
\* of that wiring and calls the registered handler once; and when a
\* connection is lost without stop(), its close callback reaches
\* _schedule_full_reconnect, which starts a new rebuild loop unless a loop
\* that has yet to rebuild is running.
C26_RebuiltLikeStarted ==
    [][/\ \A t \in Threads :
             (thr[t].pc = "build" /\ thr'[t].pc = "open") => wiring'[hub'] = Wiring
       /\ Delivers =>
             /\ last'.ran = Wiring[last'.event]
             /\ last'.invoked = registered[SlotOf(last'.ran)]
             /\ last'.times = 1
       /\ \A h \in Hubs :
             /\ (closePending[h] = "drop" /\ closePending'[h] = "none" /\ ~stopped) =>
                   cbpc'[h] = "sched_check"
             /\ (cbpc[h] = "sched_check" /\ cbpc'[h] # "sched_check") =>
                   \/ cbpc'[h] = "sched_create"
                   \/ thr[reconnect_thread].pc \notin {"returning", "done"}]_vars

\* The argument list of a server event does not have the wire shape of its
\* kind: it is empty, its first element is not a JSON object (for the IMEI
\* event: neither a string nor a number), or the object lacks a required id
\* or holds a status value that is no message status.
Malformed(m, args) ==
    \/ args.len = 0
    \/ m = "ReceiveNonconversationalMessage" /\ args.t \notin {"str", "num"}
    \/ m # "ReceiveNonconversationalMessage" /\ args.t # "obj"
    \/ m = "ReceiveMessage" /\ ~({"messageId", "conversationId"} \subseteq args.has)
    \/ /\ m = "ReceiveMessageUpdate"
       /\ \/ "messageId" \notin args.has
          \/ "messageStatus" \in args.has /\ args.messageStatus \notin WireStatuses
          \/ "messageStatus" \notin args.has /\ "status" \in args.has
             /\ args.status \notin WireStatuses

\* C27: the delivery of a server event changes nothing of the channel and no
\* slot and lets no exception reach the transport; a malformed payload calls
\* no handler, and a well-formed one calls the registered handler once,
\* whatever was delivered before it.
C27_MalformedDropped ==
    [][(Delivers /\ last'.event \in ServerMethods) =>
          /\ UNCHANGED <<chanVars, slots, wiring>>
          /\ ~last'.escaped
          /\ Malformed(last'.event, last'.args) =>
                (last'.times = 0 /\ last'.invoked = NoHandler)
          /\ ~Malformed(last'.event, last'.args) =>
                /\ last'.invoked = slots[SlotOf(last'.ran)]
                /\ last'.times = IF last'.invoked # NoHandler THEN 1 ELSE 0]_vars

\* C28: a status-update event with a messageId and a registered handler:
\* with only the key status the update handed to the handler has the
\* message status of that value, with only messageStatus that of
\* messageStatus, and with both keys that of messageStatus; status
\* "Delivered" alone gives DELIVERED, with messageStatus "Read" it gives READ.
C28_StatusDecoding ==
    [][(/\ Delivers
        /\ last'.event = "ReceiveMessageUpdate"
        /\ slots[SlotOf(last'.ran)] # NoHandler
        /\ "messageId" \in last'.args.has) =>
          LET a == last'.args
              onlyStatus == "status" \in a.has /\ "messageStatus" \notin a.has
              hasMS == "messageStatus" \in a.has
          IN /\ (onlyStatus /\ a.status \in WireStatuses) =>
                   /\ last'.times = 1
                   /\ last'.arg.type = "MessageStatusUpdate"
                   /\ last'.arg.messageStatus = MessageStatusOf(a.status)
                   /\ a.status = "Delivered" => last'.arg.messageStatus = "DELIVERED"
             /\ (hasMS /\ a.messageStatus \in WireStatuses) =>
                   /\ last'.times = 1
                   /\ last'.arg.type = "MessageStatusUpdate"
                   /\ last'.arg.messageStatus = MessageStatusOf(a.messageStatus)
                   /\ a.messageStatus = "Read" => last'.arg.messageStatus = "READ"]_vars

\* A payload with status "Delivered" and messageStatus "Read" was delivered
\* and the handler got an update whose message status is READ.
C28_Witness ==
    /\ last.event = "ReceiveMessageUpdate"
    /\ {"status", "messageStatus"} \subseteq last.args.has
    /\ last.args.status = "Delivered"
    /\ last.args.messageStatus = "Read"
    /\ last.times = 1
    /\ last.arg.messageStatus = "READ"

\* The number a text of decimal digits denotes (-1 for any other text).
DigitValue(ch) ==
    IF \E d \in 0..9 : Digit(d) = ch THEN CHOOSE d \in 0..9 : Digit(d) = ch ELSE -1
RECURSIVE NumberOf(_)
NumberOf(text) ==
    IF Len(text) = 0 THEN -1
    ELSE IF DigitValue(text[Len(text)]) < 0 THEN -1
    ELSE IF Len(text) = 1 THEN DigitValue(text[1])
    ELSE IF NumberOf(SubSeq(text, 1, Len(text) - 1)) < 0 THEN -1
    ELSE 10 * NumberOf(SubSeq(text, 1, Len(text) - 1)) + DigitValue(text[Len(text)])

\* C29: every ReceiveNonconversationalMessage event delivered while a handler
\* is registered calls that handler exactly once with a str: for a numeric
\* IMEI n the text of decimal digits that denotes n, without leading zeros,
\* for a string IMEI that string; no exception reaches the transport.
C29_ImeiAsString ==
    [][(/\ Delivers
        /\ last'.event = "ReceiveNonconversationalMessage"
        /\ slots["_on_nonconversational_message"] # NoHandler) =>
          /\ last'.times = 1
          /\ last'.invoked = slots["_on_nonconversational_message"]
          /\ last'.arg.type = "str"
          /\ ~last'.escaped
          /\ (last'.args.len = 1 /\ last'.args.t = "num") =>
                /\ NumberOf(last'.arg.text) = last'.args.n
                /\ (Len(last'.arg.text) > 1 => last'.arg.text[1] # "0")
          /\ (last'.args.len = 1 /\ last'.args.t = "str") =>
                last'.arg.text = last'.args.s]_vars

\* The event arrived with the number 300234 and the handler was called once
\* with the text "300234".
C29_Witness ==
    /\ last.event = "ReceiveNonconversationalMessage"
    /\ last.args.t = "num"
    /\ last.args.n = 300234
    /\ last.times = 1
    /\ last.invoked = "h1"
    /\ last.arg.type = "str"
    /\ last.arg.text = <<"3", "0", "0", "2", "3", "4">>

\* C30: query_network_properties sends NetworkProperties with no arguments,
\* with the result callback _on_result when it was given a callback and with
\* none otherwise, and changes nothing else.  When the result arrives for an
\* invocation made with a callback: a result that parses calls the callback
\* once with the typed response holding the flags of the result, a result
\* that does not parse or is null calls nothing, and no exception reaches the
\* transport; for an invocation made without a callback nothing is called.
C30_NetworkProperties ==
    [][/\ (invocation' # invocation /\ invocation'.method = "NetworkProperties") =>
             /\ invocation'.args = <<>>
             /\ invocation'.on_result =
                   (IF invocation'.callback # NoHandler THEN "_on_result" ELSE "none")
             /\ UNCHANGED <<chanVars, slots, wiring, last, events>>
       /\ (Delivers /\ last'.event = "NetworkProperties") =>
             /\ ~last'.escaped
             /\ UNCHANGED <<chanVars, slots, wiring>>
             /\ (invocation.callback # NoHandler /\ last'.args.t = "obj") =>
                   /\ last'.times = 1
                   /\ last'.invoked = invocation.callback
                   /\ last'.arg.type = "NetworkPropertiesResponse"
                   /\ last'.arg.flags = last'.args.true
             /\ (invocation.callback # NoHandler /\ last'.args.t # "obj") =>
                   (last'.times = 0 /\ last'.invoked = NoHandler)
             /\ invocation.callback = NoHandler =>
                   (last'.times = 0 /\ last'.ran = "none")]_vars

\* A query made with callback h2 was answered with dataConstrained true and
\* enablesPremiumMessaging false, and h2 was called once with that response.
C30_Witness ==
    /\ last.event = "NetworkProperties"
    /\ last.ran = "_on_result"
    /\ last.args.true = {"dataConstrained"}
    /\ last.times = 1
    /\ last.invoked = "h2"
    /\ last.arg.type = "NetworkPropertiesResponse"
    /\ last.arg.flags = {"dataConstrained"}

\* C31: in the listen command every ReceiveMessage event that is handed to
\* the message handler is followed, in that same delivery and after the
\* handler got the message, by exactly one MarkAsDelivered invocation whose
\* arguments are the strings of that message's conversationId and messageId,
\* in this order; no MarkAsDelivered is made at any other time.
HandedToOnMsg == Delivers /\ last'.ran = "_handle_message" /\ last'.times = 1
LastSleep(t) == Sleeps(t)[Len(Sleeps(t))]
C32_StopOldHubIgnoresErrors ==
    [][\A t \in Threads :
          /\ (thr[t].pc = "teardown" /\ thr'[t] # thr[t]) =>
                /\ thr'[t].pc = "build"
                /\ thr'[t].delay = thr[t].delay
                /\ thr[t].stop = "none"
                /\ hub # NoHub =>
                      /\ thr'[t].stop \in HubStopOutcomes
                      /\ hubState'[hub] # "live"
          /\ (thr[t].pc = "build" /\ thr'[t].pc = "open") =>
                /\ thr[t].stop \in HubStopOutcomes
                /\ thr'[t].stop = thr[t].stop
                /\ thr'[t].delay = thr[t].delay
          /\ (thr[t].pc = "open" /\ thr'[t].pc = "returning") =>
                /\ thr'[t].delay = LastSleep(t).d
                /\ Len(thr'[t].hist) >= 3
                /\ thr'[t].hist[Len(thr'[t].hist) - 2].ev = "sleep"
                /\ thr'[t].hist[Len(thr'[t].hist) - 1].ev = "attempt"
                /\ thr'[t].hist[Len(thr'[t].hist)].ev = "ok"
                /\ hubState'[hub] = "live"
          /\ (thr'[t].stop # thr[t].stop /\ thr'[t].stop # "none") => thr[t].pc = "teardown"]_vars
C32_Witness ==
    \E t \in Threads :
        /\ thr[t].pc = "returning"
        /\ thr[t].stop = "raised"
        /\ hub # NoHub
        /\ hubState[hub] = "live"
        /\ Len(Sleeps(t)) = 2
        /\ thr[t].delay = LastSleep(t).d

\* C33: no unexpected close is lost: whenever the current hub is closed,
\* stop() was not called, no close callback is pending or executing and the
\* caller is not inside start() or stop(), some reconnect thread is running
\* that has a rebuild attempt still ahead of it.
WillAttempt(t) == thr[t].pc \in {"while", "sleeping", "token", "teardown", "build", "open"}
C33_NoCloseLost ==
    (/\ hub # NoHub
     /\ hubState[hub] = "down"
     /\ ~stopped
     /\ callerpc = "idle"
     /\ \A h \in Hubs : closePending[h] = "none" /\ cbpc[h] = "idle")
    => \E t \in Threads : WillAttempt(t)

\* C34: a reconnect loop that slept through a stop() exits on waking also
\* when start() was called before it wakes (the stopped flag is false
\* again): it does not go on to the token check and the rebuild step, so it
\* neither stops nor replaces the hub that start() built.
C34_LoopScheduledBeforeStopNeverActs ==
    [][\A t \in Threads :
          (thr[t].pc = "sleeping" /\ thr[t].stopSeen /\ ~stopped /\ thr'[t] # thr[t])
          => /\ thr'[t].pc \in {"done", "unused"}
             /\ hub' = hub
             /\ hubState' = hubState]_vars

\* C35: when the close callback of an unexpected close runs (the stopped
\* flag is false) with an on_close handler registered, it goes on to
\* schedule the reconnect loop, whether the handler returns or raises.
C35_CloseSchedulesDespiteHandler ==
    [][\A h \in Hubs :
          (/\ closePending[h] # "none"
           /\ closePending'[h] = "none"
           /\ on_close # "none"
           /\ ~stopped)
          => cbpc'[h] = "sched_check"]_vars

\* C36: when the handler the application registered for one of the six
\* server events raises, the exception does not leave the channel's
\* callback, the channel's state (flag, hub, threads, slots, registrations
\* on the hub) is as before, and the next event is dispatched to its handler
\* like any other.
C36_HandlerExceptionsCaught ==
    [][/\ (Delivers /\ last'.event \in ServerMethods /\ last'.raised) =>
             /\ ~last'.escaped
             /\ chanVars' = chanVars
             /\ slots' = slots
             /\ wiring' = wiring
             /\ dropped' = dropped
       /\ (Delivers /\ last'.event \in ServerMethods /\ last'.afterRaise \in ServerMethods) =>
             /\ last'.ok = Decode(last'.ran, last'.args).ok
             /\ (last'.ok /\ slots[SlotOf(last'.ran)] # NoHandler) =>
                   /\ last'.times = 1
                   /\ last'.invoked = slots[SlotOf(last'.ran)]]_vars
C36_Witness ==
    /\ last.afterRaise \in ServerMethods
    /\ last.event \in ServerMethods
    /\ last.event # last.afterRaise
    /\ last.times = 1
    /\ ~last.raised
    /\ hubState[last.hub] = "live"

\* C37: when headers() or the token-provider callback returns normally a
\* non-empty access token, token_expired is false at that moment for the
\* credential the manager holds; stated here for the case that the clock did
\* not advance at all, so that only the expiresIn values answered by the
\* server decide.
C37_NeverHandsOutExpired ==
    [][\A c \in Callers :
          (/\ call[c].op \in {"headers", "token_factory"}
           /\ Ends(c)
           /\ call'[c].result = "returned"
           /\ ~Falsy(access_token')
           /\ ticks' = 0)
          => ~token_expired']_vars

\* C38: a confirm_otp() or refresh_hermes_token() call whose request fails
\* (the POST raises, the status is not 2xx, or the body does not parse)
\* ends raising that error, and no step of such a call changes the four
\* in-memory fields, the credentials file or the session directory: only
\* the step that receives a valid answer does.
StoreOps == {"confirm_otp", "refresh_hermes_token"}
C38_FailedCallChangesNothing ==
    [][\A c \in Callers :
          call[c].op \in StoreOps =>
             /\ FailedAnswer(c) =>
                   /\ Ends(c)
                   /\ call'[c].result = "raised"
                   /\ call'[c].err \in RequestFailures
             /\ (call[c].pc \notin {"idle", "done"} /\ Steps(c) /\ ~GoodAnswer(c)) =>
                   UNCHANGED <<credVars, disk, stored, session_dir>>
             /\ (Ends(c) /\ call'[c].result = "raised") => ~GoodAnswer(c)]_vars
C38_Witness ==
    \E c \in Callers, op \in StoreOps :
       /\ call[c].op = op
       /\ call[c].pc = "done"
       /\ call[c].result = "raised"
       /\ call[c].err = "ValidationError"
       /\ call[c].sent = 1
       /\ access_token = 1
       /\ refresh_token = 1
       /\ session_dir # NoDir
       /\ disk[session_dir] = DumpCredentials(access_token, refresh_token, instance_id,
                                              expires_at)

\* C39: whenever resume() raises (no file, a file lacking a key, a failed
\* or refused refresh of an expired credential) the four in-memory fields
\* are what they were when resume() was called.
C39_ResumeAllOrNothing ==
    [][\A c \in Callers :
          (call[c].op = "resume" /\ Ends(c) /\ call'[c].result = "raised")
          => InMemory' = call[c].before]_vars

\* C40: once every refresh has returned (no thread is inside a call), the
\* access token, the refresh token and the instance id in memory are those
\* of one single server answer, and with a session directory the file holds
\* the credential that is in memory.
AllReturned == \A c \in Callers : call[c].pc \in {"idle", "done"}
C40_NoTornCredential ==
    AllReturned =>
       /\ access_token = refresh_token
       /\ refresh_token = instance_id
       /\ session_dir # NoDir =>
             disk[session_dir] =
                DumpCredentials(access_token, refresh_token, instance_id, expires_at)

====
